---- MODULE Spec2Model ----
(***************************************************************************)
(* Turn-based tactical combat core of src/main.py: grid map, unit          *)
(* registry, line of sight, hit chance, attack resolution, action points,  *)
(* reactive (overwatch) fire, the layered enemy AI and the turn/phase      *)
(* state machine.                                                          *)
(***************************************************************************)
EXTENDS Integers, Sequences, FiniteSets, TLC

VARIABLES
    g_player_squad,   \* list of player unit records (order matters)
    g_enemy_units,    \* list of enemy unit records (order matters)
    current_state,    \* g_game_state['current_state']
    turn_count,       \* g_game_state['turn_count']
    active_unit_id,   \* g_game_state['active_unit_id'] (None when unset)
    last,             \* observation of the most recent operation
    hc                \* inputs and result of the last calculate_hit_chance probe

vars == <<g_player_squad, g_enemy_units, current_state, turn_count,
          active_unit_id, last, hc>>

----------------------------------------------------------------------------
(* Configuration namespace Cfg                                             *)

BASE_HIT_CHANCE == 75
AP_COST_MOVE == 1
AP_COST_SHOOT == 4
AP_COST_OVERWATCH == 3
AP_COST_RELOAD == 2

(* Built-in map geometry                                                   *)
MapWidth == 20
MapHeight == 15

(* Bounds of the model                                                     *)
MaxTurn == 2          \* commands are followed while turn_count < MaxTurn

None == 0             \* Python None for active_unit_id

----------------------------------------------------------------------------
(* Small arithmetic helpers                                                *)

Abs(n) == IF n < 0 THEN -n ELSE n
Max2(a, b) == IF a > b THEN a ELSE b
Min2(a, b) == IF a < b THEN a ELSE b

RECURSIVE ISqrtFrom(_, _)
ISqrtFrom(n, r) == IF (r + 1) * (r + 1) > n THEN r ELSE ISqrtFrom(n, r + 1)

\* int(math.sqrt(d2) * 3): the integer part of three times the root of d2
IntSqrtTimes3(d2) == ISqrtFrom(9 * d2, 0)

----------------------------------------------------------------------------
(* Grid map: the tile pattern built by init_default_map / load_map         *)

Tile(x, y) ==
    IF x = 10 /\ 5 <= y /\ y <= 10
    THEN [type |-> "wall", cover |-> 100, blocks_sight |-> TRUE, blocks_movement |-> TRUE]
    ELSE IF (x = 5 \/ x = 15) /\ (y = 3 \/ y = 12)
    THEN [type |-> "crate", cover |-> 50, blocks_sight |-> FALSE, blocks_movement |-> TRUE]
    ELSE [type |-> "floor", cover |-> 0, blocks_sight |-> FALSE, blocks_movement |-> FALSE]

InBounds(x, y) == 0 <= y /\ y < MapHeight /\ 0 <= x /\ x < MapWidth

is_valid_position(x, y) ==
    IF ~InBounds(x, y) THEN FALSE ELSE ~Tile(x, y).blocks_movement

----------------------------------------------------------------------------
(* Visibility engine                                                       *)

RECURSIVE LosWalk_endpoints_block(_, _, _, _, _, _, _)
\* variant: a blocking tile stops the walk on the start and end tile too
LosWalk_endpoints_block(x0, y0, x1, y1, x, y, err) ==
    LET dx == Abs(x1 - x0)
        dy == Abs(y1 - y0)
        sx == IF x0 < x1 THEN 1 ELSE -1
        sy == IF y0 < y1 THEN 1 ELSE -1
        blocked == InBounds(x, y) /\ Tile(x, y).blocks_sight
        e2 == 2 * err
        stepx == e2 > -dy
        stepy == e2 < dx
        err1 == IF stepx THEN err - dy ELSE err
        nx == IF stepx THEN x + sx ELSE x
        err2 == IF stepy THEN err1 + dx ELSE err1
        ny == IF stepy THEN y + sy ELSE y
    IN  IF blocked THEN FALSE
        ELSE IF x = x1 /\ y = y1 THEN TRUE
        ELSE LosWalk_endpoints_block(x0, y0, x1, y1, nx, ny, err2)

RECURSIVE LosWalk(_, _, _, _, _, _, _)
\* one iteration of the while-loop of has_line_of_sight at cell (x, y)
LosWalk(x0, y0, x1, y1, x, y, err) ==
    LET dx == Abs(x1 - x0)
        dy == Abs(y1 - y0)
        sx == IF x0 < x1 THEN 1 ELSE -1
        sy == IF y0 < y1 THEN 1 ELSE -1
        blocked == /\ InBounds(x, y)
                   /\ Tile(x, y).blocks_sight
                   /\ <<x, y>> # <<x0, y0>>
                   /\ <<x, y>> # <<x1, y1>>
        e2 == 2 * err
        stepx == e2 > -dy
        stepy == e2 < dx
        err1 == IF stepx THEN err - dy ELSE err
        nx == IF stepx THEN x + sx ELSE x
        err2 == IF stepy THEN err1 + dx ELSE err1
        ny == IF stepy THEN y + sy ELSE y
    IN  IF blocked THEN FALSE
        ELSE IF x = x1 /\ y = y1 THEN TRUE
        ELSE LosWalk(x0, y0, x1, y1, nx, ny, err2)

has_line_of_sight(x0, y0, x1, y1) ==
    LosWalk(x0, y0, x1, y1, x0, y0, Abs(x1 - x0) - Abs(y1 - y0))

----------------------------------------------------------------------------
(* Hit chance                                                              *)

\* squared Euclidean distance; calculate_distance is its square root
DistSq(ax, ay, bx, by) == (ax - bx) * (ax - bx) + (ay - by) * (ay - by)

\* integer division that rounds toward zero
TruncDiv(a, b) == IF a >= 0 THEN a \div b ELSE -((-a) \div b)

\* calculate_hit_chance returning final_chance as it is
HitChanceOf_unclamped(mk, ax, ay, tx, ty, agi) ==
    LET base_chance == BASE_HIT_CHANCE + ((mk - 70) \div 2)
        distance_penalty == IntSqrtTimes3(DistSq(ax, ay, tx, ty))
        cover_bonus == Tile(tx, ty).cover
        dodge_bonus == (agi - 60) \div 4
    IN  base_chance - distance_penalty - cover_bonus - dodge_bonus

\* calculate_hit_chance with divisions that round toward zero
HitChanceOf_truncating(mk, ax, ay, tx, ty, agi) ==
    LET base_chance == BASE_HIT_CHANCE + TruncDiv(mk - 70, 2)
        distance_penalty == IntSqrtTimes3(DistSq(ax, ay, tx, ty))
        cover_bonus == Tile(tx, ty).cover
        dodge_bonus == TruncDiv(agi - 60, 4)
        final_chance == base_chance - distance_penalty - cover_bonus - dodge_bonus
    IN  Max2(5, Min2(95, final_chance))

\* calculate_hit_chance on the values it reads: attacker marksmanship and
\* position, target position (its tile gives the cover) and target agility
HitChanceOf(mk, ax, ay, tx, ty, agi) ==
    LET base_chance == BASE_HIT_CHANCE + ((mk - 70) \div 2)
        distance_penalty == IntSqrtTimes3(DistSq(ax, ay, tx, ty))
        cover_bonus == Tile(tx, ty).cover
        dodge_bonus == (agi - 60) \div 4
        final_chance == base_chance - distance_penalty - cover_bonus - dodge_bonus
    IN  Max2(5, Min2(95, final_chance))

calculate_hit_chance(attacker, target) ==
    HitChanceOf(attacker.marksmanship, attacker.x, attacker.y,
                target.x, target.y, target.agility)

----------------------------------------------------------------------------
(* Unit registry.  A unit record carries the fields of the character dict  *)
(* that the combat core reads or writes; uid stands for the identity of    *)
(* the Python dict object, id for its K_ID string.  The operators below    *)
(* thread a world record w = [ps, es, active, log, atk, moves, err,        *)
(* checks]: both unit lists, active_unit_id, and what the running          *)
(* operation has appended to the combat log, which execute_attack calls    *)
(* it has made, which position changes move_unit has made, how many        *)
(* diagnostics it logged and how many overwatch checks it ran.             *)

NoUnit == [uid |-> 0]
IsUnit(u) == u.uid # 0

World(ps, es, active) ==
    [ps |-> ps, es |-> es, active |-> active,
     log |-> <<>>, atk |-> <<>>, moves |-> <<>>, err |-> 0, checks |-> 0]

AllUnits(w) == w.ps \o w.es

RECURSIVE FirstWith(_, _, _)
\* index >= i of the first element of seq satisfying P, 0 if there is none
FirstWith(seq, P(_), i) ==
    IF i > Len(seq) THEN 0
    ELSE IF P(seq[i]) THEN i
    ELSE FirstWith(seq, P, i + 1)

find_unit_by_id(w, unit_id) ==
    LET all == AllUnits(w)
        k == FirstWith(all, LAMBDA u: u.id = unit_id, 1)
    IN  IF k = 0 THEN NoUnit ELSE all[k]

\* the object uid as it now is in the lists, or fb when it has been removed
Obj(w, uid, fb) ==
    LET all == AllUnits(w)
        k == FirstWith(all, LAMBDA u: u.uid = uid, 1)
    IN  IF k = 0 THEN fb ELSE all[k]

\* in-place mutation of the dict object uid
Mutate(w, uid, F(_)) ==
    [w EXCEPT !.ps = [i \in DOMAIN w.ps |-> IF w.ps[i].uid = uid THEN F(w.ps[i]) ELSE w.ps[i]],
              !.es = [i \in DOMAIN w.es |-> IF w.es[i].uid = uid THEN F(w.es[i]) ELSE w.es[i]]]

WithoutUnit(seq, uid) == SelectSeq(seq, LAMBDA u: u.uid # uid)

Log(w, line) == [w EXCEPT !.log = Append(w.log, line)]

\* variant: only the player squad is searched
is_position_occupied_players_only(w, x, y) ==
    \E i \in DOMAIN w.ps :
        LET u == w.ps[i] IN u.health > 0 /\ u.x = x /\ u.y = y

is_position_occupied(w, x, y) ==
    \E i \in DOMAIN AllUnits(w) :
        LET u == AllUnits(w)[i] IN u.health > 0 /\ u.x = x /\ u.y = y

can_reach_position(unit, x, y) ==
    LET distance == Abs(unit.x - x) + Abs(unit.y - y)
    IN  unit.ap >= distance * AP_COST_MOVE

----------------------------------------------------------------------------
(* Combat resolver                                                         *)

\* handle_unit_death with the removal from the collection left out
handle_unit_death_keeps_unit(w, unit) ==
    LET w1 == Log(w, "killed")
    IN  IF w1.active = unit.id
        THEN [w1 EXCEPT !.active = IF Len(w1.ps) > 0 THEN w1.ps[1].id ELSE None]
        ELSE w1

\* handle_unit_death with the reassignment of active_unit_id left out
handle_unit_death_keeps_active(w, unit) ==
    LET w1 == Log(w, "killed")
    IN  IF unit.faction = "player"
        THEN [w1 EXCEPT !.ps = WithoutUnit(w1.ps, unit.uid)]
        ELSE [w1 EXCEPT !.es = WithoutUnit(w1.es, unit.uid)]

\* variant: every death selects the first remaining player unit
handle_unit_death_always_reselects(w, unit) ==
    LET w1 == Log(w, "killed")
        w2 == IF unit.faction = "player"
              THEN [w1 EXCEPT !.ps = WithoutUnit(w1.ps, unit.uid)]
              ELSE [w1 EXCEPT !.es = WithoutUnit(w1.es, unit.uid)]
    IN  [w2 EXCEPT !.active = IF Len(w2.ps) > 0 THEN w2.ps[1].id ELSE None]

handle_unit_death(w, unit) ==
    LET w1 == Log(w, "killed")
        w2 == IF unit.faction = "player"
              THEN [w1 EXCEPT !.ps = WithoutUnit(w1.ps, unit.uid)]
              ELSE [w1 EXCEPT !.es = WithoutUnit(w1.es, unit.uid)]
    IN  IF w2.active = unit.id
        THEN [w2 EXCEPT !.active = IF Len(w2.ps) > 0 THEN w2.ps[1].id ELSE None]
        ELSE w2

\* one entry of w.atk: what a call of execute_attack did
AttackEvent(attacker, target, res) ==
    [a |-> attacker.uid, t |-> target.uid, res |-> res]

\* the last entry of w.atk completed by the two ids of the call
Called(w, attacker_id, target_id) ==
    LET n == Len(w.atk)
        e == w.atk[n]
    IN  [w EXCEPT !.atk[n] = [a |-> e.a, t |-> e.t, res |-> e.res,
                              aid |-> attacker_id, tid |-> target_id]]

Damage(attacker, rnd) ==
    LET base_damage == 25
        skill_bonus == (attacker.marksmanship - 70) \div 5
    IN  Max2(15, base_damage + skill_bonus + rnd)

\* outcomes of roll = random.randint(1, 100) and of random.randint(-5, 5)
Rolls == {1, 50, 100}
DamageRolls == {-5, 5}

\* execute_attack once both units are found, the ammo and the line of sight
\* checks have passed and the draws are roll and rnd
resolve_attack(w, attacker, target, roll, rnd) ==
    LET w1 == Mutate(w, attacker.uid,
                     LAMBDA u: [u EXCEPT !.current_ammo = @ - 1])
        attacker1 == Obj(w1, attacker.uid, attacker)
        target1 == Obj(w1, target.uid, target)
        hit_chance == calculate_hit_chance(attacker1, target1)
    IN
    IF roll <= hit_chance
    THEN LET damage == Damage(attacker1, rnd)
             new_hp == Max2(0, target1.health - damage)
             w2 == Log(Mutate(w1, target1.uid,
                              LAMBDA u: [u EXCEPT !.health = new_hp]), "hit")
             target2 == [target1 EXCEPT !.health = new_hp]
             w3 == IF new_hp <= 0 THEN handle_unit_death(w2, target2) ELSE w2
         IN  [Log(w3, "ammo") EXCEPT
                  !.atk = Append(@, AttackEvent(attacker, target,
                                                IF new_hp <= 0 THEN "kill" ELSE "hit"))]
    ELSE [Log(Log(w1, "miss"), "ammo") EXCEPT
              !.atk = Append(@, AttackEvent(attacker, target, "miss"))]

\* execute_attack with the ammo check left out
execute_attack_unchecked_ammo(w, attacker_id, target_id) ==
    LET attacker == find_unit_by_id(w, attacker_id)
        target == find_unit_by_id(w, target_id)
        outcomes ==
            IF ~IsUnit(attacker) \/ ~IsUnit(target)
            THEN {[w EXCEPT
                       !.err = @ + 1,
                       !.atk = Append(@, AttackEvent(attacker, target, "not_found"))]}
            ELSE IF ~has_line_of_sight(attacker.x, attacker.y, target.x, target.y)
            THEN {[Log(w, "no_los") EXCEPT
                       !.atk = Append(@, AttackEvent(attacker, target, "no_los"))]}
            ELSE { resolve_attack(w, attacker, target, roll, rnd) :
                     roll \in Rolls, rnd \in DamageRolls }
    IN  { Called(w1, attacker_id, target_id) : w1 \in outcomes }

\* the set of worlds execute_attack can leave, one per outcome of its draws
\* variant: an unknown id is reported in the combat log as well
execute_attack_logs_not_found(w, attacker_id, target_id) ==
    LET attacker == find_unit_by_id(w, attacker_id)
        target == find_unit_by_id(w, target_id)
        outcomes ==
            IF ~IsUnit(attacker) \/ ~IsUnit(target)
            THEN {[Log(w, "not_found") EXCEPT
                       !.err = @ + 1,
                       !.atk = Append(@, AttackEvent(attacker, target, "not_found"))]}
            ELSE IF attacker.current_ammo <= 0
            THEN {[Log(w, "out_of_ammo") EXCEPT
                       !.atk = Append(@, AttackEvent(attacker, target, "out_of_ammo"))]}
            ELSE IF ~has_line_of_sight(attacker.x, attacker.y, target.x, target.y)
            THEN {[Log(w, "no_los") EXCEPT
                       !.atk = Append(@, AttackEvent(attacker, target, "no_los"))]}
            ELSE { resolve_attack(w, attacker, target, roll, rnd) :
                     roll \in Rolls, rnd \in DamageRolls }
    IN  { Called(w1, attacker_id, target_id) : w1 \in outcomes }

\* variant: a resolved shot is paid for inside execute_attack
execute_attack_charges_ap(w, attacker_id, target_id) ==
    LET attacker == find_unit_by_id(w, attacker_id)
        target == find_unit_by_id(w, target_id)
        outcomes ==
            IF ~IsUnit(attacker) \/ ~IsUnit(target)
            THEN {[w EXCEPT
                       !.err = @ + 1,
                       !.atk = Append(@, AttackEvent(attacker, target, "not_found"))]}
            ELSE IF attacker.current_ammo <= 0
            THEN {[Log(w, "out_of_ammo") EXCEPT
                       !.atk = Append(@, AttackEvent(attacker, target, "out_of_ammo"))]}
            ELSE IF ~has_line_of_sight(attacker.x, attacker.y, target.x, target.y)
            THEN {[Log(w, "no_los") EXCEPT
                       !.atk = Append(@, AttackEvent(attacker, target, "no_los"))]}
            ELSE { Mutate(resolve_attack(w, attacker, target, roll, rnd), attacker.uid,
                          LAMBDA u: [u EXCEPT !.ap = Max2(0, @ - AP_COST_SHOOT)]) :
                     roll \in Rolls, rnd \in DamageRolls }
    IN  { Called(w1, attacker_id, target_id) : w1 \in outcomes }

\* variant: the line of sight is tested before the ammo
execute_attack_los_first(w, attacker_id, target_id) ==
    LET attacker == find_unit_by_id(w, attacker_id)
        target == find_unit_by_id(w, target_id)
        outcomes ==
            IF ~IsUnit(attacker) \/ ~IsUnit(target)
            THEN {[w EXCEPT
                       !.err = @ + 1,
                       !.atk = Append(@, AttackEvent(attacker, target, "not_found"))]}
            ELSE IF ~has_line_of_sight(attacker.x, attacker.y, target.x, target.y)
            THEN {[Log(w, "no_los") EXCEPT
                       !.atk = Append(@, AttackEvent(attacker, target, "no_los"))]}
            ELSE IF attacker.current_ammo <= 0
            THEN {[Log(w, "out_of_ammo") EXCEPT
                       !.atk = Append(@, AttackEvent(attacker, target, "out_of_ammo"))]}
            ELSE { resolve_attack(w, attacker, target, roll, rnd) :
                     roll \in Rolls, rnd \in DamageRolls }
    IN  { Called(w1, attacker_id, target_id) : w1 \in outcomes }

execute_attack(w, attacker_id, target_id) ==
    LET attacker == find_unit_by_id(w, attacker_id)
        target == find_unit_by_id(w, target_id)
        outcomes ==
            IF ~IsUnit(attacker) \/ ~IsUnit(target)
            THEN {[w EXCEPT
                       !.err = @ + 1,
                       !.atk = Append(@, AttackEvent(attacker, target, "not_found"))]}
            ELSE IF attacker.current_ammo <= 0
            THEN {[Log(w, "out_of_ammo") EXCEPT
                       !.atk = Append(@, AttackEvent(attacker, target, "out_of_ammo"))]}
            ELSE IF ~has_line_of_sight(attacker.x, attacker.y, target.x, target.y)
            THEN {[Log(w, "no_los") EXCEPT
                       !.atk = Append(@, AttackEvent(attacker, target, "no_los"))]}
            ELSE { resolve_attack(w, attacker, target, roll, rnd) :
                     roll \in Rolls, rnd \in DamageRolls }
    IN  { Called(w1, attacker_id, target_id) : w1 \in outcomes }

----------------------------------------------------------------------------
(* Action economy and reactive triggers                                    *)

HasOverwatch(u) == \E i \in DOMAIN u.status_effects : u.status_effects[i] = "overwatch"

\* list.remove('overwatch'): drops the first occurrence
RemoveOverwatch(status) ==
    LET k == FirstWith(status, LAMBDA s: s = "overwatch", 1)
    IN  IF k = 0 THEN status
        ELSE SubSeq(status, 1, k - 1) \o SubSeq(status, k + 1, Len(status))

\* variant: the flag is appended without the membership test
activate_overwatch_appends_again(w, unit_id) ==
    LET unit == find_unit_by_id(w, unit_id)
    IN  IF ~IsUnit(unit) THEN w
        ELSE IF unit.ap >= AP_COST_OVERWATCH
        THEN Log(Mutate(w, unit.uid,
                        LAMBDA u: [u EXCEPT !.ap = @ - AP_COST_OVERWATCH,
                                            !.status_effects = Append(@, "overwatch")]),
                 "on_overwatch")
        ELSE w

activate_overwatch(w, unit_id) ==
    LET unit == find_unit_by_id(w, unit_id)
    IN  IF ~IsUnit(unit) THEN w
        ELSE IF unit.ap >= AP_COST_OVERWATCH
        THEN Log(Mutate(w, unit.uid,
                        LAMBDA u: [u EXCEPT !.ap = @ - AP_COST_OVERWATCH,
                                            !.status_effects =
                                                IF HasOverwatch(u) THEN @
                                                ELSE Append(@, "overwatch")]),
                 "on_overwatch")
        ELSE w

\* variant: the ammo test comes first and the reload is not paid for when
\* the unit is short of action points
reload_weapon_unchecked_ap(w, unit_id) ==
    LET unit == find_unit_by_id(w, unit_id)
    IN  IF ~IsUnit(unit) THEN w
        ELSE IF unit.current_ammo >= unit.max_ammo THEN Log(w, "reload_full")
        ELSE Log(Mutate(w, unit.uid,
                        LAMBDA u: [u EXCEPT !.ap = Max2(@ - AP_COST_RELOAD, 0),
                                            !.current_ammo = u.max_ammo]),
                 "reloaded")

reload_weapon(w, unit_id) ==
    LET unit == find_unit_by_id(w, unit_id)
    IN  IF ~IsUnit(unit) THEN w
        ELSE IF unit.ap < AP_COST_RELOAD THEN Log(w, "reload_no_ap")
        ELSE IF unit.current_ammo >= unit.max_ammo THEN Log(w, "reload_full")
        ELSE Log(Mutate(w, unit.uid,
                        LAMBDA u: [u EXCEPT !.ap = @ - AP_COST_RELOAD,
                                            !.current_ammo = u.max_ammo]),
                 "reloaded")

\* check_overwatch_triggers with the test of the old position left out
check_overwatch_triggers_any_view(w, moved, old_x, old_y) ==
    LET watching_units == IF moved.faction = "player" THEN w.es ELSE w.ps
        Fires(watcher) ==
            /\ HasOverwatch(watcher)
            /\ watcher.health > 0
            /\ has_line_of_sight(watcher.x, watcher.y, moved.x, moved.y)
        k == FirstWith(watching_units, Fires, 1)
        w0 == [w EXCEPT !.checks = @ + 1]
    IN  IF k = 0 THEN {w0}
        ELSE LET watcher == watching_units[k]
                 w1 == Log(w0, "fires_overwatch")
             IN  { Mutate(w2, watcher.uid,
                          LAMBDA u: [u EXCEPT !.status_effects = RemoveOverwatch(@)]) :
                     w2 \in execute_attack(w1, watcher.id, moved.id) }

\* moved is the moved_unit object as it is when the check starts; the result
\* is the set of worlds the check can leave
check_overwatch_triggers(w, moved, old_x, old_y) ==
    LET watching_units == IF moved.faction = "player" THEN w.es ELSE w.ps
        Fires(watcher) ==
            /\ HasOverwatch(watcher)
            /\ watcher.health > 0
            /\ has_line_of_sight(watcher.x, watcher.y, moved.x, moved.y)
            /\ ~has_line_of_sight(watcher.x, watcher.y, old_x, old_y)
        k == FirstWith(watching_units, Fires, 1)
        w0 == [w EXCEPT !.checks = @ + 1]
    IN  IF k = 0 THEN {w0}
        ELSE LET watcher == watching_units[k]
                 w1 == Log(w0, "fires_overwatch")
             IN  { Mutate(w2, watcher.uid,
                          LAMBDA u: [u EXCEPT !.status_effects = RemoveOverwatch(@)]) :
                     w2 \in execute_attack(w1, watcher.id, moved.id) }

\* move_unit charging a diagonal step as one tile
move_unit_diagonal_steps(w, unit_id, new_x, new_y) ==
    LET unit == find_unit_by_id(w, unit_id)
    IN  IF ~IsUnit(unit) THEN {w}
        ELSE
        LET distance == Max2(Abs(unit.x - new_x), Abs(unit.y - new_y))
            ap_cost == distance * AP_COST_MOVE
        IN  IF unit.ap >= ap_cost
            THEN LET moved == [unit EXCEPT !.x = new_x, !.y = new_y, !.ap = @ - ap_cost]
                     w1 == [Mutate(w, unit.uid, LAMBDA u: moved) EXCEPT
                               !.moves = Append(@, [uid |-> unit.uid,
                                                    ox |-> unit.x, oy |-> unit.y,
                                                    nx |-> new_x, ny |-> new_y])]
                 IN  check_overwatch_triggers(w1, moved, unit.x, unit.y)
            ELSE {w}

\* move_unit with the action point check left out
move_unit_unchecked_ap(w, unit_id, new_x, new_y) ==
    LET unit == find_unit_by_id(w, unit_id)
    IN  IF ~IsUnit(unit) THEN {w}
        ELSE
        LET distance == Abs(unit.x - new_x) + Abs(unit.y - new_y)
            ap_cost == distance * AP_COST_MOVE
            moved == [unit EXCEPT !.x = new_x, !.y = new_y, !.ap = @ - ap_cost]
            w1 == [Mutate(w, unit.uid, LAMBDA u: moved) EXCEPT
                      !.moves = Append(@, [uid |-> unit.uid,
                                           ox |-> unit.x, oy |-> unit.y,
                                           nx |-> new_x, ny |-> new_y])]
        IN  check_overwatch_triggers(w1, moved, unit.x, unit.y)

\* move_unit handing the destination to the reactive-fire check as the
\* prior position
move_unit_checks_destination(w, unit_id, new_x, new_y) ==
    LET unit == find_unit_by_id(w, unit_id)
    IN  IF ~IsUnit(unit) THEN {w}
        ELSE
        LET distance == Abs(unit.x - new_x) + Abs(unit.y - new_y)
            ap_cost == distance * AP_COST_MOVE
        IN  IF unit.ap >= ap_cost
            THEN LET moved == [unit EXCEPT !.x = new_x, !.y = new_y, !.ap = @ - ap_cost]
                     w1 == [Mutate(w, unit.uid, LAMBDA u: moved) EXCEPT
                               !.moves = Append(@, [uid |-> unit.uid,
                                                    ox |-> unit.x, oy |-> unit.y,
                                                    nx |-> new_x, ny |-> new_y])]
                 IN  check_overwatch_triggers(w1, moved, new_x, new_y)
            ELSE {w}

move_unit(w, unit_id, new_x, new_y) ==
    LET unit == find_unit_by_id(w, unit_id)
    IN  IF ~IsUnit(unit) THEN {w}
        ELSE
        LET distance == Abs(unit.x - new_x) + Abs(unit.y - new_y)
            ap_cost == distance * AP_COST_MOVE
        IN  IF unit.ap >= ap_cost
            THEN LET moved == [unit EXCEPT !.x = new_x, !.y = new_y, !.ap = @ - ap_cost]
                     w1 == [Mutate(w, unit.uid, LAMBDA u: moved) EXCEPT
                               !.moves = Append(@, [uid |-> unit.uid,
                                                    ox |-> unit.x, oy |-> unit.y,
                                                    nx |-> new_x, ny |-> new_y])]
                 IN  check_overwatch_triggers(w1, moved, unit.x, unit.y)
            ELSE {w}

----------------------------------------------------------------------------
(* AI controller.  Each behaviour yields the set of its possible results    *)
(* [w, done]: the world after it and whether it reported True.  unit is    *)
(* the enemy dict object the turn was started for.                         *)

Ret(w, done) == [w |-> w, done |-> done]

\* score = hit_chance + 30 * (max_health - health) / max_health, kept as the
\* exact fraction num / den
ScoreNum(unit, p) ==
    calculate_hit_chance(unit, p) * p.max_health + 30 * (p.max_health - p.health)

RECURSIVE BestTarget_first_visible(_, _, _, _, _, _)
\* variant: the loop keeps the first living visible player unit, whatever
\* the later ones score
BestTarget_first_visible(w, unit, i, best, best_num, best_den) ==
    IF i > Len(w.ps) THEN [best |-> best, num |-> best_num, den |-> best_den]
    ELSE LET p == w.ps[i]
             seen == /\ p.health > 0
                     /\ has_line_of_sight(unit.x, unit.y, p.x, p.y)
                     /\ ScoreNum(unit, p) > 0
         IN  IF seen
             THEN [best |-> i, num |-> ScoreNum(unit, p), den |-> p.max_health]
             ELSE BestTarget_first_visible(w, unit, i + 1, best, best_num, best_den)

RECURSIVE BestTarget(_, _, _, _, _, _)
\* the for-loop of ai_try_attack_visible_enemy from index i on; best = 0 is None
BestTarget(w, unit, i, best, best_num, best_den) ==
    IF i > Len(w.ps) THEN [best |-> best, num |-> best_num, den |-> best_den]
    ELSE LET p == w.ps[i]
             better == /\ p.health > 0
                       /\ has_line_of_sight(unit.x, unit.y, p.x, p.y)
                       /\ ScoreNum(unit, p) * best_den > best_num * p.max_health
         IN  IF better
             THEN BestTarget(w, unit, i + 1, i, ScoreNum(unit, p), p.max_health)
             ELSE BestTarget(w, unit, i + 1, best, best_num, best_den)

ai_try_attack_visible_enemy(w, unit) ==
    IF unit.ap < AP_COST_SHOOT THEN {Ret(w, FALSE)}
    ELSE LET b == BestTarget(w, unit, 1, 0, 0, 1)
         IN  IF b.best # 0 /\ b.num > 40 * b.den
             THEN { Ret(Mutate(w1, unit.uid,
                               LAMBDA u: [u EXCEPT !.ap = @ - AP_COST_SHOOT]), TRUE) :
                      w1 \in execute_attack(w, unit.id, w.ps[b.best].id) }
             ELSE {Ret(w, FALSE)}

RECURSIVE CoverScan(_, _, _, _, _, _)
\* the double loop of ai_try_take_cover from offset number n on (dy outer,
\* dx inner, both -4..4); pos = <<>> is None, dist = -1 is infinity
CoverScan(w, unit, n, pos, cover, dist) ==
    IF n >= 81 THEN [pos |-> pos, cover |-> cover]
    ELSE LET dy == (n \div 9) - 4
             dx == (n % 9) - 4
             new_x == unit.x + dx
             new_y == unit.y + dy
             distance == Abs(dx) + Abs(dy)
             take == /\ is_valid_position(new_x, new_y)
                     /\ ~is_position_occupied(w, new_x, new_y)
                     /\ \/ Tile(new_x, new_y).cover > cover
                        \/ /\ Tile(new_x, new_y).cover = cover
                           /\ (dist = -1 \/ distance < dist)
                     /\ can_reach_position(unit, new_x, new_y)
         IN  IF take
             THEN CoverScan(w, unit, n + 1, <<new_x, new_y>>,
                            Tile(new_x, new_y).cover, distance)
             ELSE CoverScan(w, unit, n + 1, pos, cover, dist)

\* the move of a committed take-cover or advance: move_unit, then the
\* behaviour's own check_overwatch_triggers on the unit object
MoveAndCheck(w, unit, pos) ==
    UNION { { Ret(w2, TRUE) :
                w2 \in check_overwatch_triggers(
                           w1, Obj(w1, unit.uid, [unit EXCEPT !.x = pos[1], !.y = pos[2]]),
                           unit.x, unit.y) } :
            w1 \in move_unit(w, unit.id, pos[1], pos[2]) }

ai_try_take_cover(w, unit) ==
    LET current_cover == Tile(unit.x, unit.y).cover
    IN  IF current_cover >= 50 \/ unit.ap < AP_COST_MOVE * 2 THEN {Ret(w, FALSE)}
        ELSE LET b == CoverScan(w, unit, 0, <<>>, current_cover, -1)
             IN  IF b.pos # <<>> /\ b.cover > current_cover + 20
                 THEN MoveAndCheck(w, unit, b.pos)
                 ELSE {Ret(w, FALSE)}

RECURSIVE NearestFrom(_, _, _, _, _)
\* the for-loop of find_nearest_player; best = 0 is None, best_d2 = -1 is infinity
NearestFrom(w, unit, i, best, best_d2) ==
    IF i > Len(w.ps) THEN best
    ELSE LET p == w.ps[i]
             d2 == DistSq(unit.x, unit.y, p.x, p.y)
         IN  IF p.health > 0 /\ (best_d2 = -1 \/ d2 < best_d2)
             THEN NearestFrom(w, unit, i + 1, i, d2)
             ELSE NearestFrom(w, unit, i + 1, best, best_d2)

find_nearest_player(w, unit) == NearestFrom(w, unit, 1, 0, -1)

RECURSIVE AdvanceScan(_, _, _, _, _, _, _)
\* the double loop of ai_try_move_to_enemy from offset number n on (dy outer,
\* dx inner, both -1..1); distances are compared by their squares
AdvanceScan(w, unit, tx, ty, n, move, best_d2) ==
    IF n >= 9 THEN move
    ELSE LET dy == (n \div 3) - 1
             dx == (n % 3) - 1
             new_x == unit.x + dx
             new_y == unit.y + dy
             new_d2 == DistSq(new_x, new_y, tx, ty)
             take == /\ ~(dx = 0 /\ dy = 0)
                     /\ is_valid_position(new_x, new_y)
                     /\ ~is_position_occupied(w, new_x, new_y)
                     /\ new_d2 < best_d2
         IN  IF take
             THEN AdvanceScan(w, unit, tx, ty, n + 1, <<new_x, new_y>>, new_d2)
             ELSE AdvanceScan(w, unit, tx, ty, n + 1, move, best_d2)

ai_try_move_to_enemy(w, unit) ==
    IF unit.ap < AP_COST_MOVE THEN {Ret(w, FALSE)}
    ELSE LET k == find_nearest_player(w, unit)
         IN  IF k = 0 THEN {Ret(w, FALSE)}
             ELSE
             LET nearest == w.ps[k]
                 dist2 == DistSq(unit.x, unit.y, nearest.x, nearest.y)
             IN  IF dist2 <= 8 * 8 THEN {Ret(w, FALSE)}
                 ELSE
                 LET best_move == AdvanceScan(w, unit, nearest.x, nearest.y, 0, <<>>, dist2)
                 IN  IF best_move # <<>> /\ unit.ap >= AP_COST_MOVE
                     THEN MoveAndCheck(w, unit, best_move)
                     ELSE {Ret(w, FALSE)}

\* layer 4 of ai_take_turn: overwatch as fallback, else end the turn
ai_fallback(w, unit) ==
    IF unit.ap >= AP_COST_OVERWATCH
    THEN Mutate(activate_overwatch(w, unit.id), unit.uid,
                LAMBDA u: [u EXCEPT !.ap = 0])
    ELSE Mutate(w, unit.uid, LAMBDA u: [u EXCEPT !.ap = 0])

\* variant: after a committed attack the advance layer still runs
ai_take_turn_attack_then_advance(w, unit) ==
    LET a1 == ai_try_attack_visible_enemy(w, unit)
        a2 == ai_try_take_cover(w, unit)
        a3 == ai_try_move_to_enemy(w, unit)
        Done(a) == { r.w : r \in { q \in a : q.done } }
    IN  IF Done(a1) # {}
        THEN UNION { { r.w : r \in ai_try_move_to_enemy(w1, Obj(w1, unit.uid, unit)) } :
                     w1 \in Done(a1) }
        ELSE IF Done(a2) # {} THEN Done(a2)
        ELSE IF Done(a3) # {} THEN Done(a3)
        ELSE {ai_fallback(w, unit)}

\* a behaviour that declines changes nothing, so the next layer starts from w
ai_take_turn(w, unit) ==
    LET a1 == ai_try_attack_visible_enemy(w, unit)
        a2 == ai_try_take_cover(w, unit)
        a3 == ai_try_move_to_enemy(w, unit)
        Done(a) == { r.w : r \in { q \in a : q.done } }
    IN  IF Done(a1) # {} THEN Done(a1)
        ELSE IF Done(a2) # {} THEN Done(a2)
        ELSE IF Done(a3) # {} THEN Done(a3)
        ELSE {ai_fallback(w, unit)}

----------------------------------------------------------------------------
(* Mission start                                                           *)

\* create_character: a unit built from a template, without a weapon
create_character(uid, id, x, y, t) ==
    [uid |-> uid, id |-> id, x |-> x, y |-> y,
     health |-> t.health, max_health |-> t.health,
     ap |-> t.action_points, max_ap |-> t.action_points,
     faction |-> "player", status_effects |-> <<>>,
     current_ammo |-> 0, max_ammo |-> 0,
     marksmanship |-> t.marksmanship, agility |-> t.agility]

initialize_unit_ammo(unit, ammo_capacity) ==
    [unit EXCEPT !.max_ammo = ammo_capacity, !.current_ammo = ammo_capacity]

\* default spawn area of start_selected_mission
spawn_positions == <<<<2, 2>>, <<3, 2>>, <<4, 2>>, <<2, 3>>, <<3, 3>>, <<4, 3>>>>

\* External data the model runs with: the unit template of both factions
\* and the ammo capacity of the weapon
Template == [health |-> 25, action_points |-> 5, marksmanship |-> 70, agility |-> 60]
EnemyTemplate == [Template EXCEPT !.action_points = 10]
AmmoCapacity == 1

\* the missions the model starts: per squad slot whether the loadout holds a
\* primary weapon, and the enemy_spawns list of the map data
Missions ==
    { [squad |-> <<TRUE, TRUE>>, enemy_spawns |-> <<<<11, 5>>>>],
      [squad |-> <<TRUE, FALSE>>, enemy_spawns |-> <<<<6, 13>>>>],
      [squad |-> <<TRUE>>, enemy_spawns |-> <<<<12, 2>>, <<11, 5>>>>],
      [squad |-> <<FALSE>>, enemy_spawns |-> <<<<11, 5>>>>] }

\* the squad loop of start_selected_mission
PlayerUnit(i, id, armed) ==
    LET unit == create_character(i, id, spawn_positions[i][1], spawn_positions[i][2],
                                 Template)
    IN  IF armed THEN initialize_unit_ammo(unit, AmmoCapacity) ELSE unit

\* the spawn loop of load_map
EnemyUnit(uid, id, spawn) ==
    initialize_unit_ammo(
        [create_character(uid, id, spawn[1], spawn[2], EnemyTemplate)
            EXCEPT !.faction = "enemy"],
        AmmoCapacity)

\* outcomes of the random.randint(1000, 9999) draws of create_character, up
\* to renaming: the k-th unit created draws a fresh id or one drawn before
IdDraws(n) ==
    { f \in [1..n -> 1..n] :
        /\ f[1] = 1
        /\ \A k \in 2..n : \E j \in 1..(k - 1) : f[k] <= f[j] + 1 }

\* tiles the player clicks
ClickTiles == { <<2, 2>>, <<3, 2>>, <<3, 3>>, <<2, 12>>, <<5, 3>>, <<20, 2>> }

\* hc outside a hit-chance probe
NoProbe == [done |-> FALSE, result |-> 0]

\* what the operation op did: its arguments (the clicked tile, or the uid of
\* the enemy the AI ran for) and what it logged, attacked, moved and checked
Observed(op, x, y, unit, w) ==
    [op |-> op, x |-> x, y |-> y, unit |-> unit,
     log |-> w.log, atk |-> w.atk, moves |-> w.moves,
     err |-> w.err, checks |-> w.checks]

Init ==
    \E m \in Missions :
      LET n == Len(m.squad)
          spawns == m.enemy_spawns
      IN
      \E ids \in IdDraws(n + Len(spawns)) :
        /\ g_player_squad = [i \in 1..n |-> PlayerUnit(i, ids[i], m.squad[i])]
        /\ g_enemy_units =
             [j \in 1..Len(spawns) |-> EnemyUnit(n + j, ids[n + j], spawns[j])]
        /\ active_unit_id = ids[1]
        /\ turn_count = 1
        /\ current_state = "tactical_combat"
        /\ last = Observed("start", 0, 0, 0, World(<<>>, <<>>, None))
        /\ hc = NoProbe

----------------------------------------------------------------------------
(* Commands and ticks                                                      *)

Now == World(g_player_squad, g_enemy_units, active_unit_id)

\* commit the world w reached by operation op
Commit(op, x, y, unit, w) ==
    /\ g_player_squad' = w.ps
    /\ g_enemy_units' = w.es
    /\ active_unit_id' = w.active
    /\ last' = Observed(op, x, y, unit, w)

\* variant: the move is tried on an occupied tile too
handle_tile_click_unchecked_occupancy(w, x, y) ==
    LET k == FirstWith(w.ps, LAMBDA u: u.x = x /\ u.y = y, 1)
    IN  IF k # 0 THEN {[w EXCEPT !.active = w.ps[k].id]}
        ELSE IF w.active = None THEN {w}
        ELSE LET active_unit == find_unit_by_id(w, w.active)
             IN  IF /\ IsUnit(active_unit)
                    /\ is_valid_position(x, y)
                    /\ can_reach_position(active_unit, x, y)
                 THEN move_unit(w, active_unit.id, x, y)
                 ELSE {w}

handle_tile_click(w, x, y) ==
    LET k == FirstWith(w.ps, LAMBDA u: u.x = x /\ u.y = y, 1)
    IN  IF k # 0 THEN {[w EXCEPT !.active = w.ps[k].id]}
        ELSE IF w.active = None THEN {w}
        ELSE LET active_unit == find_unit_by_id(w, w.active)
             IN  IF /\ IsUnit(active_unit)
                    /\ is_valid_position(x, y)
                    /\ ~is_position_occupied(w, x, y)
                    /\ can_reach_position(active_unit, x, y)
                 THEN move_unit(w, active_unit.id, x, y)
                 ELSE {w}

handle_tile_right_click(w, x, y) ==
    LET k == FirstWith(w.es, LAMBDA e: e.x = x /\ e.y = y /\ e.health > 0, 1)
    IN  IF k # 0 /\ w.active # None
        THEN LET target_enemy == w.es[k]
                 active_unit == find_unit_by_id(w, w.active)
             IN  IF IsUnit(active_unit) /\ active_unit.ap >= AP_COST_SHOOT
                 THEN IF has_line_of_sight(active_unit.x, active_unit.y, x, y)
                      THEN { Mutate(w1, active_unit.uid,
                                    LAMBDA u: [u EXCEPT !.ap = @ - AP_COST_SHOOT]) :
                               w1 \in execute_attack(w, active_unit.id, target_enemy.id) }
                      ELSE {Log(w, "no_los")}
                 ELSE {Log(w, "no_ap_to_shoot")}
        ELSE IF is_valid_position(x, y) THEN {Log(w, "tile_info")} ELSE {w}

cycle_active_unit(w) ==
    IF Len(w.ps) = 0 THEN w
    ELSE LET k == FirstWith(w.ps, LAMBDA u: u.id = w.active, 1)
             \* current_index is k - 1, or -1 when not found
             next_index == ((k - 1) + 1) % Len(w.ps)
         IN  [w EXCEPT !.active = w.ps[next_index + 1].id]

\* variant: only the player units get their action points back
end_enemy_turn_players_only(w) ==
    LET Reset(u) == [u EXCEPT !.ap = u.max_ap]
        Clear(u) == [u EXCEPT !.status_effects = RemoveOverwatch(@)]
    IN  Log([w EXCEPT !.ps = [i \in DOMAIN w.ps |-> Clear(Reset(w.ps[i]))],
                      !.es = [i \in DOMAIN w.es |-> Clear(w.es[i])]],
            "turn_begins")

\* variant: only the enemy units get their action points back
end_enemy_turn_enemies_only(w) ==
    LET Reset(u) == [u EXCEPT !.ap = u.max_ap]
        Clear(u) == [u EXCEPT !.status_effects = RemoveOverwatch(@)]
    IN  Log([w EXCEPT !.ps = [i \in DOMAIN w.ps |-> Clear(w.ps[i])],
                      !.es = [i \in DOMAIN w.es |-> Clear(Reset(w.es[i]))]],
            "turn_begins")

end_enemy_turn(w) ==
    LET Reset(u) == [u EXCEPT !.ap = u.max_ap]
        Clear(u) == [u EXCEPT !.status_effects = RemoveOverwatch(@)]
    IN  Log([w EXCEPT !.ps = [i \in DOMAIN w.ps |-> Clear(Reset(w.ps[i]))],
                      !.es = [i \in DOMAIN w.es |-> Clear(Reset(w.es[i]))]],
            "turn_begins")

InCombat == current_state = "tactical_combat"

\* the model follows the commands of the turns before MaxTurn
MayAct == InCombat /\ turn_count < MaxTurn

TileClick ==
    /\ MayAct
    /\ \E t \in ClickTiles : \E w \in handle_tile_click(Now, t[1], t[2]) :
         Commit("click", t[1], t[2], 0, w)
    /\ UNCHANGED <<current_state, turn_count, hc>>

TileRightClick ==
    /\ MayAct
    /\ \E t \in ClickTiles \cup { <<g_enemy_units[j].x, g_enemy_units[j].y>> :
                                   j \in DOMAIN g_enemy_units } :
         \E w \in handle_tile_right_click(Now, t[1], t[2]) :
           Commit("right_click", t[1], t[2], 0, w)
    /\ UNCHANGED <<current_state, turn_count, hc>>

OverwatchKey ==
    /\ MayAct
    /\ Commit("overwatch", 0, 0, 0,
              IF active_unit_id # None THEN activate_overwatch(Now, active_unit_id)
              ELSE Now)
    /\ UNCHANGED <<current_state, turn_count, hc>>

ReloadKey ==
    /\ MayAct
    /\ Commit("reload", 0, 0, 0,
              IF active_unit_id # None THEN reload_weapon(Now, active_unit_id)
              ELSE Now)
    /\ UNCHANGED <<current_state, turn_count, hc>>

CycleKey ==
    /\ MayAct
    /\ Commit("cycle", 0, 0, 0, cycle_active_unit(Now))
    /\ UNCHANGED <<current_state, turn_count, hc>>

\* end_player_turn
EndTurnKey ==
    /\ MayAct
    /\ current_state' = "enemy_turn"
    /\ Commit("end_player_turn", 0, 0, 0, Log(Now, "player_turn_ended"))
    /\ UNCHANGED <<turn_count, hc>>

\* update_game_state in tactical_combat: update_combat
UpdateCombat ==
    /\ InCombat
    /\ LET alive_players == SelectSeq(g_player_squad, LAMBDA u: u.health > 0)
       IN  current_state' = IF Len(alive_players) = 0 THEN "game_over"
                            ELSE current_state
    /\ Commit("update_combat", 0, 0, 0, Now)
    /\ UNCHANGED <<turn_count, hc>>

\* variant: the tick runs the last enemy of the scan instead of the first
UpdateEnemyAI_last_eligible ==
    /\ current_state = "enemy_turn"
    /\ LET enemies_with_ap == SelectSeq(g_enemy_units,
                                        LAMBDA e: e.health > 0 /\ e.ap > 0)
           n == Len(enemies_with_ap)
       IN  IF n > 0
           THEN /\ \E w \in ai_take_turn(Now, enemies_with_ap[n]) :
                     Commit("ai_take_turn", 0, 0, enemies_with_ap[n].uid, w)
                /\ UNCHANGED <<current_state, turn_count, hc>>
           ELSE /\ Commit("end_enemy_turn", 0, 0, 0, end_enemy_turn(Now))
                /\ current_state' = "tactical_combat"
                /\ turn_count' = turn_count + 1
                /\ UNCHANGED hc

\* update_game_state in enemy_turn: update_enemy_ai
UpdateEnemyAI ==
    /\ current_state = "enemy_turn"
    /\ LET enemies_with_ap == SelectSeq(g_enemy_units,
                                        LAMBDA e: e.health > 0 /\ e.ap > 0)
       IN  IF Len(enemies_with_ap) > 0
           THEN /\ \E w \in ai_take_turn(Now, enemies_with_ap[1]) :
                     Commit("ai_take_turn", 0, 0, enemies_with_ap[1].uid, w)
                /\ UNCHANGED <<current_state, turn_count, hc>>
           ELSE /\ Commit("end_enemy_turn", 0, 0, 0, end_enemy_turn(Now))
                /\ current_state' = "tactical_combat"
                /\ turn_count' = turn_count + 1
                /\ UNCHANGED hc

Next ==
    \/ TileClick
    \/ TileRightClick
    \/ OverwatchKey
    \/ ReloadKey
    \/ CycleKey
    \/ EndTurnKey
    \/ UpdateCombat
    \/ UpdateEnemyAI

Spec == Init /\ [][Next]_vars

----------------------------------------------------------------------------
(* calculate_hit_chance on its own: a shooter and a target built by        *)
(* create_character from drawn attributes and placed on drawn tiles, the   *)
(* function applied to them once.                                          *)

ProbeSkills == {0, 40, 69, 70, 71, 110, 140}
ProbeAgilities == {0, 57, 60, 64, 100, 200}
ShooterTiles == { <<2, 2>>, <<0, 0>>, <<19, 14>> }
\* the shooter's own tile, floor next to it and far away, a crate and a wall
TargetTiles == { <<2, 2>>, <<3, 2>>, <<12, 9>>, <<5, 3>>, <<10, 5>> }
\* the fields of the two dicts that calculate_hit_chance does not read
ProbeRest == { [health |-> 100, action_points |-> 10, armed |-> TRUE],
               [health |-> 25, action_points |-> 5, armed |-> FALSE] }

ProbeUnit(uid, faction, tile, mk, agi, rest) ==
    LET unit == [create_character(uid, uid, tile[1], tile[2],
                                  [health |-> rest.health,
                                   action_points |-> rest.action_points,
                                   marksmanship |-> mk, agility |-> agi])
                    EXCEPT !.faction = faction]
    IN  IF rest.armed THEN initialize_unit_ammo(unit, AmmoCapacity) ELSE unit

HitInit ==
    \E mk \in ProbeSkills, agi \in ProbeAgilities, rest \in ProbeRest :
      \E a \in ShooterTiles, t \in TargetTiles :
        /\ g_player_squad = <<ProbeUnit(1, "player", a, mk, 60, rest)>>
        /\ g_enemy_units = <<ProbeUnit(2, "enemy", t, 70, agi, rest)>>
        /\ active_unit_id = 1
        /\ turn_count = 1
        /\ current_state = "tactical_combat"
        /\ last = Observed("start", 0, 0, 0, World(<<>>, <<>>, None))
        /\ hc = NoProbe

\* one call calculate_hit_chance(attacker, target); the function assigns to
\* nothing but its locals
HitProbe ==
    /\ ~hc.done
    /\ hc' = [done |-> TRUE,
              result |-> calculate_hit_chance(g_player_squad[1], g_enemy_units[1])]
    /\ UNCHANGED <<g_player_squad, g_enemy_units, current_state, turn_count,
                   active_unit_id, last>>

HitNext == HitProbe

HitSpec == HitInit /\ [][HitNext]_vars

\* a mission whose map data spawns the enemy next to the squad
CloseMission == [squad |-> <<TRUE, TRUE>>, enemy_spawns |-> <<<<3, 3>>>>]

\* start_selected_mission for CloseMission
CloseInit ==
    LET n == Len(CloseMission.squad)
        spawns == CloseMission.enemy_spawns
    IN
    \E ids \in IdDraws(n + Len(spawns)) :
      /\ g_player_squad = [i \in 1..n |-> PlayerUnit(i, ids[i], CloseMission.squad[i])]
      /\ g_enemy_units =
           [j \in 1..Len(spawns) |-> EnemyUnit(n + j, ids[n + j], spawns[j])]
      /\ active_unit_id = ids[1]
      /\ turn_count = 1
      /\ current_state = "tactical_combat"
      /\ last = Observed("start", 0, 0, 0, World(<<>>, <<>>, None))
      /\ hc = NoProbe

\* the game played from CloseMission
CloseSpec == CloseInit /\ [][Next]_vars

\* a mission whose map data spawns one enemy next to the squad member and
\* two more in one row, so that the second advances behind the first
CrowdMission ==
    [squad |-> <<TRUE>>, enemy_spawns |-> <<<<3, 3>>, <<12, 2>>, <<13, 2>>>>]

\* start_selected_mission for CrowdMission
CrowdInit ==
    LET n == Len(CrowdMission.squad)
        spawns == CrowdMission.enemy_spawns
    IN
    \E ids \in IdDraws(n + Len(spawns)) :
      /\ g_player_squad = [i \in 1..n |-> PlayerUnit(i, ids[i], CrowdMission.squad[i])]
      /\ g_enemy_units =
           [j \in 1..Len(spawns) |-> EnemyUnit(n + j, ids[n + j], spawns[j])]
      /\ active_unit_id = ids[1]
      /\ turn_count = 1
      /\ current_state = "tactical_combat"
      /\ last = Observed("start", 0, 0, 0, World(<<>>, <<>>, None))
      /\ hc = NoProbe

\* the game played from CrowdMission
CrowdSpec == CrowdInit /\ [][Next]_vars

\* a player unit in mid-game: some action points spent, some rounds fired
SpentUnit(i, id, armed, ap, rounds) ==
    [PlayerUnit(i, id, armed) EXCEPT
        !.ap = ap,
        !.current_ammo = IF armed THEN rounds ELSE 0]

\* the reload probe: the second turn of a squad of two facing one enemy,
\* with action points and rounds spent, and either unit selected
ReloadInit ==
    \E ids \in IdDraws(3), armed \in BOOLEAN, sel \in 1..2 :
      \E ap1 \in 0..Template.action_points, ap2 \in 0..Template.action_points :
        \E r1 \in 0..AmmoCapacity, r2 \in 0..AmmoCapacity :
          /\ g_player_squad = << SpentUnit(1, ids[1], TRUE, ap1, r1),
                                 SpentUnit(2, ids[2], armed, ap2, r2) >>
          /\ g_enemy_units = <<EnemyUnit(3, ids[3], <<11, 5>>)>>
          /\ active_unit_id = ids[sel]
          /\ turn_count = 2
          /\ current_state = "tactical_combat"
          /\ last = Observed("start", 0, 0, 0, World(<<>>, <<>>, None))
          /\ hc = NoProbe

\* the R key of handle_combat_input
ReloadProbe ==
    /\ InCombat
    /\ active_unit_id # None
    /\ Commit("reload", 0, 0, 0, reload_weapon(Now, active_unit_id))
    /\ UNCHANGED <<current_state, turn_count, hc>>

ReloadNext == ReloadProbe

ReloadSpec == ReloadInit /\ [][ReloadNext]_vars

\* a mission whose first squad member comes from a template with 10 action
\* points, enough for several activations of overwatch in one turn
OverwatchInit ==
    \E ids \in IdDraws(3), armed \in BOOLEAN :
      /\ g_player_squad =
           << initialize_unit_ammo(
                  create_character(1, ids[1], spawn_positions[1][1],
                                   spawn_positions[1][2], EnemyTemplate),
                  AmmoCapacity),
              PlayerUnit(2, ids[2], armed) >>
      /\ g_enemy_units = <<EnemyUnit(3, ids[3], <<11, 5>>)>>
      /\ active_unit_id = ids[1]
      /\ turn_count = 1
      /\ current_state = "tactical_combat"
      /\ last = Observed("start", 0, 0, 0, World(<<>>, <<>>, None))
      /\ hc = NoProbe

\* the O key and the TAB key of handle_combat_input
OverwatchNext == OverwatchKey \/ CycleKey

OverwatchSpec == OverwatchInit /\ [][OverwatchNext]_vars

RECURSIVE Digits(_)
\* the decimal digits json.dump writes for the natural number n
Digits(n) == IF n < 10 THEN <<n>> ELSE Append(Digits(n \div 10), n % 10)

\* variant: only the last digit is written
DumpInt_last_digit(n) == [neg |-> n < 0, digits |-> <<Abs(n) % 10>>]

\* the JSON text of an int: sign and digits
DumpInt(n) == [neg |-> n < 0, digits |-> Digits(Abs(n))]

RECURSIVE DigitsValue(_)
DigitsValue(digits) ==
    IF Len(digits) = 0 THEN 0
    ELSE 10 * DigitsValue(SubSeq(digits, 1, Len(digits) - 1)) + digits[Len(digits)]

\* the int json.load reads from such a text
LoadInt(j) == IF j.neg THEN 0 - DigitsValue(j.digits) ELSE DigitsValue(j.digits)

\* the JSON text of a unit id or of active_unit_id: null for None, else the
\* quoted string
DumpId(id) == IF id = None THEN [null |-> TRUE, str |-> 0]
              ELSE [null |-> FALSE, str |-> id]

LoadId(j) == IF j.null THEN None ELSE j.str

\* the JSON object of a unit dict; uid stands for the position of the object
\* in the file
DumpUnit(u) ==
    [uid |-> u.uid, id |-> DumpId(u.id),
     x |-> DumpInt(u.x), y |-> DumpInt(u.y),
     health |-> DumpInt(u.health), max_health |-> DumpInt(u.max_health),
     ap |-> DumpInt(u.ap), max_ap |-> DumpInt(u.max_ap),
     faction |-> u.faction, status_effects |-> u.status_effects,
     current_ammo |-> DumpInt(u.current_ammo), max_ammo |-> DumpInt(u.max_ammo),
     marksmanship |-> DumpInt(u.marksmanship), agility |-> DumpInt(u.agility)]

LoadUnit(j) ==
    [uid |-> j.uid, id |-> LoadId(j.id),
     x |-> LoadInt(j.x), y |-> LoadInt(j.y),
     health |-> LoadInt(j.health), max_health |-> LoadInt(j.max_health),
     ap |-> LoadInt(j.ap), max_ap |-> LoadInt(j.max_ap),
     faction |-> j.faction, status_effects |-> j.status_effects,
     current_ammo |-> LoadInt(j.current_ammo), max_ammo |-> LoadInt(j.max_ammo),
     marksmanship |-> LoadInt(j.marksmanship), agility |-> LoadInt(j.agility)]

\* state_to_save of save_game as written by json.dump
SaveFile ==
    [current_state |-> current_state,
     turn_count |-> DumpInt(turn_count),
     active_unit_id |-> DumpId(active_unit_id),
     player_squad |-> [i \in DOMAIN g_player_squad |-> DumpUnit(g_player_squad[i])],
     enemy_units |-> [i \in DOMAIN g_enemy_units |-> DumpUnit(g_enemy_units[i])]]

\* variant: a dangling active_unit_id is reset
validate_game_state_resets_active(w) ==
    LET all == AllUnits(w)
        dup == IF Len(all) # Cardinality({ all[i].id : i \in DOMAIN all }) THEN 1 ELSE 0
        out == Cardinality({ i \in DOMAIN all : ~InBounds(all[i].x, all[i].y) })
        gone == w.active # None /\ ~IsUnit(find_unit_by_id(w, w.active))
    IN  [w EXCEPT !.err = @ + dup + out + (IF gone THEN 1 ELSE 0),
                  !.active = IF gone THEN None ELSE @]

\* validate_game_state: one log_error when the list of ids is longer than
\* the set of ids, one for each unit off the map, one when active_unit_id is
\* set and find_unit_by_id finds nothing
validate_game_state(w) ==
    LET all == AllUnits(w)
        dup == IF Len(all) # Cardinality({ all[i].id : i \in DOMAIN all }) THEN 1 ELSE 0
        out == Cardinality({ i \in DOMAIN all : ~InBounds(all[i].x, all[i].y) })
        gone == IF w.active # None /\ ~IsUnit(find_unit_by_id(w, w.active)) THEN 1 ELSE 0
    IN  [w EXCEPT !.err = @ + dup + out + gone]

\* F5: validate_game_state
ValidateKey ==
    /\ Commit("validate_game_state", 0, 0, 0, validate_game_state(Now))
    /\ UNCHANGED <<current_state, turn_count, hc>>

\* F1: save_game; the file is kept in hc
SaveKey ==
    /\ hc' = [done |-> TRUE, result |-> SaveFile]
    /\ Commit("save_game", 0, 0, 0, Log(Now, "game_saved"))
    /\ UNCHANGED <<current_state, turn_count>>

\* F2: load_game: the file's state is installed and validated; without a
\* file it records an error and changes nothing
LoadKey ==
    /\ IF hc.done
       THEN /\ current_state' = hc.result.current_state
            /\ turn_count' = LoadInt(hc.result.turn_count)
            /\ Commit("load_game", 0, 0, 0,
                      Log(validate_game_state(
                            World([i \in DOMAIN hc.result.player_squad |->
                                     LoadUnit(hc.result.player_squad[i])],
                                  [i \in DOMAIN hc.result.enemy_units |->
                                     LoadUnit(hc.result.enemy_units[i])],
                                  LoadId(hc.result.active_unit_id))),
                          "game_loaded"))
       ELSE /\ Commit("load_game", 0, 0, 0, [Now EXCEPT !.err = @ + 1])
            /\ UNCHANGED <<current_state, turn_count>>
    /\ UNCHANGED hc

\* start_selected_mission for a squad of one with the enemy two tiles away
SaveInit ==
    \E ids \in IdDraws(2) :
      /\ g_player_squad = <<PlayerUnit(1, ids[1], TRUE)>>
      /\ g_enemy_units = <<EnemyUnit(2, ids[2], <<3, 3>>)>>
      /\ active_unit_id = ids[1]
      /\ turn_count = 1
      /\ current_state = "tactical_combat"
      /\ last = Observed("start", 0, 0, 0, World(<<>>, <<>>, None))
      /\ hc = NoProbe

\* the game with the two save keys
SaveNext == Next \/ SaveKey \/ LoadKey

SaveSpec == SaveInit /\ [][SaveNext]_vars

----------------------------------------------------------------------------
(* The frame loop of main: every event of a frame goes through             *)
(* handle_input, then update_game_state ticks once                         *)

\* the input events of the combat screen, with the tile of a mouse click
Events ==
    { [kind |-> k, x |-> t[1], y |-> t[2]] :
        k \in {"click", "right_click"}, t \in {<<3, 2>>, <<3, 3>>} }
    \cup { [kind |-> k, x |-> 0, y |-> 0] :
             k \in {"overwatch", "reload", "cycle", "end_player_turn"} }

\* handle_combat_input: the world and the turn state the event leaves
handle_combat_input(w, event) ==
    LET Stay(ws) == { [w |-> v, state |-> "tactical_combat"] : v \in ws }
    IN  CASE event.kind = "click" -> Stay(handle_tile_click(w, event.x, event.y))
          [] event.kind = "right_click" ->
               Stay(handle_tile_right_click(w, event.x, event.y))
          [] event.kind = "end_player_turn" ->
               { [w |-> Log(w, "player_turn_ended"), state |-> "enemy_turn"] }
          [] event.kind = "overwatch" ->
               Stay({ IF w.active # None THEN activate_overwatch(w, w.active)
                      ELSE w })
          [] event.kind = "reload" ->
               Stay({ IF w.active # None THEN reload_weapon(w, w.active) ELSE w })
          [] event.kind = "cycle" -> Stay({ cycle_active_unit(w) })

\* variant: the combat handler gets the event in every turn state
handle_input_any_state(state, event, w) == handle_combat_input(w, event)

\* handle_input, state-specific part: only tactical_combat has a handler for
\* the combat events; enemy_turn and game_over have none
handle_input(state, event, w) ==
    IF state = "tactical_combat" THEN handle_combat_input(w, event)
    ELSE { [w |-> w, state |-> state] }

\* an input event while the turn state is enemy_turn or game_over
InputOutsideCombat ==
    /\ ~InCombat
    /\ \E event \in Events : \E r \in handle_input(current_state, event, Now) :
         /\ Commit(event.kind, event.x, event.y, 0, r.w)
         /\ current_state' = r.state
    /\ UNCHANGED <<turn_count, hc>>

\* update_game_state in game_over: no branch for this state
UpdateGameOver ==
    /\ current_state = "game_over"
    /\ Commit("update_game_state", 0, 0, 0, Now)
    /\ UNCHANGED <<current_state, turn_count, hc>>

\* end_player_turn in the last turn the model follows
EndLastTurnKey ==
    /\ InCombat /\ turn_count = MaxTurn
    /\ current_state' = "enemy_turn"
    /\ Commit("end_player_turn", 0, 0, 0, Log(Now, "player_turn_ended"))
    /\ UNCHANGED <<turn_count, hc>>

\* the game of SaveInit with the events and ticks of every turn state
DefeatNext == Next \/ EndLastTurnKey \/ InputOutsideCombat \/ UpdateGameOver

DefeatSpec == SaveInit /\ [][DefeatNext]_vars

\* tiles the units of a save file stand on: floor, the far corner of the
\* map, and one tile off the map on each side
FileTiles == { <<2, 2>>, <<19, 14>>, <<20, 2>>, <<3, 15>>, <<-1, 3>>, <<3, -1>> }

\* a unit dict of a save file
FileUnit(uid, id, faction, tile) ==
    [ProbeUnit(uid, faction, tile, 70, 60,
               [health |-> 25, action_points |-> 5, armed |-> TRUE])
        EXCEPT !.id = id]

\* the save files on disk: two soldiers and an enemy with ids drawn as
\* create_character draws them, standing on or off the 20x15 map the
\* running game has, and an active_unit_id that is null, one of the ids or
\* an id no unit of the file has
SaveFiles ==
    { [current_state |-> "tactical_combat",
       turn_count |-> DumpInt(1),
       active_unit_id |-> DumpId(a),
       player_squad |-> <<DumpUnit(FileUnit(1, ids[1], "player", t[1])),
                          DumpUnit(FileUnit(2, ids[2], "player", t[2]))>>,
       enemy_units |-> <<DumpUnit(FileUnit(3, ids[3], "enemy", t[3]))>>] :
        ids \in IdDraws(3), t \in FileTiles \X FileTiles \X FileTiles, a \in 0..4 }

\* a mission started while a save file is on disk
ValidateInit ==
    \E ids \in IdDraws(2), file \in SaveFiles :
      /\ g_player_squad = <<PlayerUnit(1, ids[1], TRUE)>>
      /\ g_enemy_units = <<EnemyUnit(2, ids[2], <<3, 3>>)>>
      /\ active_unit_id = ids[1]
      /\ turn_count = 1
      /\ current_state = "tactical_combat"
      /\ last = Observed("start", 0, 0, 0, World(<<>>, <<>>, None))
      /\ hc = [done |-> TRUE, result |-> file]

\* the two debug keys that run validate_game_state
ValidateNext == LoadKey \/ ValidateKey

ValidateSpec == ValidateInit /\ [][ValidateNext]_vars

\* ids tried as arguments of execute_attack: every id a unit can hold, the
\* unset id and an id that was never drawn
ProbeIds == 0..5

\* tiles of the units of the attack probe: the spawn area, and floor on
\* either side of the wall
AttackerTiles == { <<2, 2>>, <<9, 7>> }
DefenderTiles == { <<3, 3>>, <<11, 5>>, <<11, 7>> }

\* the attack probe: a squad of two and an enemy in mid-game, with rounds
\* fired, on either side of the wall or in the open
AttackInit ==
    \E ids \in IdDraws(3), a \in AttackerTiles, d \in DefenderTiles :
      \E r1 \in 0..AmmoCapacity, r3 \in 0..AmmoCapacity :
        /\ g_player_squad =
             << [SpentUnit(1, ids[1], TRUE, Template.action_points, r1)
                    EXCEPT !.x = a[1], !.y = a[2]],
                SpentUnit(2, ids[2], TRUE, 1, AmmoCapacity) >>
        /\ g_enemy_units =
             << [EnemyUnit(3, ids[3], d) EXCEPT !.current_ammo = r3] >>
        /\ active_unit_id = ids[1]
        /\ turn_count = 2
        /\ current_state = "tactical_combat"
        /\ last = Observed("start", 0, 0, 0, World(<<>>, <<>>, None))
        /\ hc = NoProbe

\* one call execute_attack(attacker_id, target_id) with any two ids
AttackProbe ==
    /\ last.op = "start"
    /\ \E attacker_id \in ProbeIds, target_id \in ProbeIds :
         \E w \in execute_attack(Now, attacker_id, target_id) :
           Commit("execute_attack", attacker_id, target_id, 0, w)
    /\ UNCHANGED <<current_state, turn_count, hc>>

AttackNext == AttackProbe

AttackSpec == AttackInit /\ [][AttackNext]_vars

RECURSIVE LinePoints(_, _, _, _, _, _, _)
\* the list points of has_line_of_sight when the walk runs to its end, as a
\* set: the cells from (x, y) on
LinePoints(x0, y0, x1, y1, x, y, err) ==
    LET dx == Abs(x1 - x0)
        dy == Abs(y1 - y0)
        sx == IF x0 < x1 THEN 1 ELSE -1
        sy == IF y0 < y1 THEN 1 ELSE -1
        e2 == 2 * err
        nx == IF e2 > -dy THEN x + sx ELSE x
        ny == IF e2 < dx THEN y + sy ELSE y
        err2 == (IF e2 > -dy THEN err - dy ELSE err) + (IF e2 < dx THEN dx ELSE 0)
    IN  IF x = x1 /\ y = y1 THEN {<<x, y>>}
        ELSE {<<x, y>>} \cup LinePoints(x0, y0, x1, y1, nx, ny, err2)

\* every cell of the built-in map
Cells == (0..(MapWidth - 1)) \X (0..(MapHeight - 1))

\* the line-of-sight probe: a unit on each end of the line
LosInit ==
    \E a \in Cells, b \in Cells :
      /\ g_player_squad = <<ProbeUnit(1, "player", a, 70, 60,
                                      [health |-> 25, action_points |-> 5, armed |-> TRUE])>>
      /\ g_enemy_units = <<ProbeUnit(2, "enemy", b, 70, 60,
                                     [health |-> 25, action_points |-> 5, armed |-> TRUE])>>
      /\ active_unit_id = 1
      /\ turn_count = 1
      /\ current_state = "tactical_combat"
      /\ last = Observed("start", 0, 0, 0, World(<<>>, <<>>, None))
      /\ hc = NoProbe

\* one call has_line_of_sight(x0, y0, x1, y1) from the first unit's tile to
\* the second unit's tile; the debug overlay is off
LosProbe ==
    /\ ~hc.done
    /\ hc' = [done |-> TRUE,
              result |-> has_line_of_sight(g_player_squad[1].x, g_player_squad[1].y,
                                           g_enemy_units[1].x, g_enemy_units[1].y)]
    /\ UNCHANGED <<g_player_squad, g_enemy_units, current_state, turn_count,
                   active_unit_id, last>>

LosNext == LosProbe

LosSpec == LosInit /\ [][LosNext]_vars

----------------------------------------------------------------------------
(* Properties                                                              *)

Units == AllUnits(Now)
UnitsAfter == g_player_squad' \o g_enemy_units'

InSeq(seq, x) == \E k \in DOMAIN seq : seq[k] = x

\* the call of execute_attack recorded as e got past its three checks
Resolved(e) == e.res \in {"hit", "kill", "miss"}

\* C1: every unit held in the player squad or the enemy list has
\* 0 <= health <= max_health and 0 <= ap <= max_ap
C1_VitalsInRange ==
    \A i \in DOMAIN Units :
        LET u == Units[i]
        IN  /\ 0 <= u.health /\ u.health <= u.max_health
            /\ 0 <= u.ap /\ u.ap <= u.max_ap

\* a shot wounded a unit that stays in its collection, and some unit has
\* spent its last action point
C1_Witness ==
    /\ \E k \in DOMAIN last.atk :
           last.atk[k].res = "hit" /\ last.atk[k].a # last.atk[k].t
    /\ \E i \in DOMAIN Units : 0 < Units[i].health /\ Units[i].health < Units[i].max_health
    /\ \E i \in DOMAIN Units : Units[i].ap = 0

\* C2: once the execute_attack calls of an operation have returned, no unit
\* with health 0 is left in the player squad or the enemy list
C2_NoDeadUnitLeft ==
    last.atk # <<>> => \A i \in DOMAIN Units : Units[i].health # 0

\* an overwatch shot killed the unit that moved
C2_Witness ==
    /\ InSeq(last.log, "fires_overwatch")
    /\ \E k \in DOMAIN last.atk :
           last.atk[k].res = "kill" /\ last.atk[k].a # last.atk[k].t

\* C3: active_unit_id is None or the id of a living unit of the player squad
C3_ActiveIsLivingPlayer ==
    \/ active_unit_id = None
    \/ \E i \in DOMAIN g_player_squad :
           g_player_squad[i].id = active_unit_id /\ g_player_squad[i].health > 0

\* the enemy killed the active unit, the last of the squad, and the
\* selection was cleared
C3_Witness ==
    /\ last.op = "ai_take_turn"
    /\ \E k \in DOMAIN last.atk :
           last.atk[k].res = "kill" /\ last.atk[k].a = last.unit
    /\ g_player_squad = <<>>
    /\ active_unit_id = None

\* what the operation just performed (the step's last') did before its k-th
\* call of execute_attack: the resolved shots of unit uid, whether uid was
\* killed, and where uid stood (every move of an operation precedes its shots)
ShotsBefore(uid, k) ==
    Cardinality({ j \in 1..(k - 1) : last'.atk[j].a = uid /\ Resolved(last'.atk[j]) })
KilledBefore(uid, k) ==
    \E j \in 1..(k - 1) : last'.atk[j].t = uid /\ last'.atk[j].res = "kill"
PlaceAt(u) ==
    LET ms == SelectSeq(last'.moves, LAMBDA m: m.uid = u.uid)
    IN  IF ms = <<>> THEN <<u.x, u.y>> ELSE <<ms[Len(ms)].nx, ms[Len(ms)].ny>>

\* the three preconditions of execute_attack at the k-th call of the step
AttackPasses(k) ==
    LET e == last'.atk[k]
        a == Obj(Now, e.a, NoUnit)
        t == Obj(Now, e.t, NoUnit)
    IN  /\ IsUnit(a) /\ ~KilledBefore(a.uid, k)
        /\ IsUnit(t) /\ ~KilledBefore(t.uid, k)
        /\ a.current_ammo - ShotsBefore(a.uid, k) > 0
        /\ has_line_of_sight(PlaceAt(a)[1], PlaceAt(a)[2], PlaceAt(t)[1], PlaceAt(t)[2])

\* C4: a call of execute_attack whose attacker and target exist, whose
\* attacker has ammo and a line of sight takes exactly one round from the
\* attacker, hit or miss; a call that aborts takes none; and every unit
\* keeps 0 <= current_ammo <= max_ammo
C4_AmmoAccounting ==
    [][ /\ \A k \in DOMAIN last'.atk : Resolved(last'.atk[k]) <=> AttackPasses(k)
        /\ \A i \in DOMAIN Units : \A j \in DOMAIN UnitsAfter :
              (last'.op # "reload" /\ UnitsAfter[j].uid = Units[i].uid)
                  => UnitsAfter[j].current_ammo =
                       Units[i].current_ammo
                         - ShotsBefore(Units[i].uid, Len(last'.atk) + 1)
        /\ \A j \in DOMAIN UnitsAfter :
              /\ 0 <= UnitsAfter[j].current_ammo
              /\ UnitsAfter[j].current_ammo <= UnitsAfter[j].max_ammo ]_vars

\* a shot that missed took the last round of its shooter
C4_Witness ==
    /\ \E k \in DOMAIN last.atk : last.atk[k].res = "miss"
    /\ \E i \in DOMAIN Units :
           /\ Units[i].current_ammo = 0 /\ Units[i].max_ammo > 0
           /\ \E k \in DOMAIN last.atk : last.atk[k].a = Units[i].uid

After == World(g_player_squad', g_enemy_units', active_unit_id')

\* the living units that hold overwatch against a mover of the given faction
Watchers(faction) ==
    { i \in DOMAIN Units :
        /\ Units[i].faction # faction
        /\ Units[i].health > 0
        /\ HasOverwatch(Units[i]) }

\* uid is in a collection after the step and holds overwatch there
WatchesAfter(uid) ==
    \E j \in DOMAIN UnitsAfter : UnitsAfter[j].uid = uid /\ HasOverwatch(UnitsAfter[j])

C6_OneReactiveShotPerMove ==
    [][ Len(last'.moves) = 1 =>
          /\ Len(last'.atk) <= 1
          /\ Cardinality({ i \in DOMAIN Units :
                             HasOverwatch(Units[i]) /\ ~WatchesAfter(Units[i].uid) }) <= 1
      ]_vars

\* C7: an attack of the player command or of the AI attack behaviour that
\* aborts as out of ammo leaves the action points of the attacker as they were
C7_OutOfAmmoKeepsAP ==
    [][ \A k \in DOMAIN last'.atk :
          ( /\ last'.op \in {"right_click", "ai_take_turn"}
            /\ last'.moves = <<>>
            /\ last'.atk[k].res = "out_of_ammo" )
          => Obj(After, last'.atk[k].a, NoUnit).ap = Obj(Now, last'.atk[k].a, NoUnit).ap
      ]_vars

\* the two dicts of the probe with every field calculate_hit_chance is not
\* said to read replaced: ids, factions, health, action points, ammo, the
\* agility of the shooter and the marksmanship of the target
ShooterRebuilt ==
    LET a == g_player_squad[1]
    IN  ProbeUnit(7, "enemy", <<a.x, a.y>>, a.marksmanship, 0,
                  [health |-> 1, action_points |-> 0, armed |-> FALSE])
TargetRebuilt ==
    LET t == g_enemy_units[1]
    IN  ProbeUnit(8, "player", <<t.x, t.y>>, 0, t.agility,
                  [health |-> 1, action_points |-> 0, armed |-> FALSE])

\* C8: calculate_hit_chance returns an integer from 5 to 95, the same for any
\* two dicts that agree on the marksmanship of the attacker, the two
\* positions (the target position selects the cover) and the agility of
\* the target, and its call changes nothing of the game state
C8_HitChanceBounded ==
    [][ hc'.done =>
          /\ hc'.result \in 5..95
          /\ hc'.result = calculate_hit_chance(ShooterRebuilt, TargetRebuilt)
          /\ UNCHANGED <<g_player_squad, g_enemy_units, current_state,
                         turn_count, active_unit_id, last>> ]_vars

\* a call whose unclamped value is 110 (marksmanship 140 on the own tile)
C8_Witness ==
    /\ hc.done /\ hc.result = 95
    /\ g_player_squad[1].marksmanship = 140
    /\ g_player_squad[1].x = g_enemy_units[1].x /\ g_player_squad[1].y = g_enemy_units[1].y

\* C9: the hit chance is clamp(BASE_HIT_CHANCE + floor((mk - 70) / 2)
\* - floor(3 * distance) - cover - floor((agility - 60) / 4), 5, 95) with the
\* Euclidean distance of the two tiles; marksmanship 70, distance 0, cover 0
\* and agility 60 give 75.  The floors are stated by their bounds.
C9_HitChanceFormula ==
    hc.done =>
      LET a == g_player_squad[1]
          t == g_enemy_units[1]
          d2 == (a.x - t.x) * (a.x - t.x) + (a.y - t.y) * (a.y - t.y)
          cover == Tile(t.x, t.y).cover
          Clamp(v) == IF v < 5 THEN 5 ELSE IF v > 95 THEN 95 ELSE v
      IN  /\ \E q \in -40..40, p \in 0..80, r \in -20..40 :
                /\ 2 * q <= a.marksmanship - 70 /\ a.marksmanship - 70 < 2 * q + 2
                /\ p * p <= 9 * d2 /\ 9 * d2 < (p + 1) * (p + 1)
                /\ 4 * r <= t.agility - 60 /\ t.agility - 60 < 4 * r + 4
                /\ hc.result = Clamp(75 + q - p - cover - r)
          /\ (a.marksmanship = 70 /\ d2 = 0 /\ cover = 0 /\ t.agility = 60)
                => hc.result = 75

\* the shot of the scenario: marksmanship 70 at distance 0 on floor against
\* agility 60
C9_Witness ==
    /\ hc.done /\ hc.result = 75
    /\ g_player_squad[1].marksmanship = 70 /\ g_enemy_units[1].agility = 60
    /\ g_player_squad[1].x = g_enemy_units[1].x /\ g_player_squad[1].y = g_enemy_units[1].y
    /\ Tile(g_enemy_units[1].x, g_enemy_units[1].y).cover = 0

\* destinations tried for every unit: the clicked tiles and the four tiles
\* diagonal to each unit
Destinations ==
    ClickTiles \cup
    UNION { { <<Units[i].x + dx, Units[i].y + dy>> : dx \in {-1, 1}, dy \in {-1, 1} } :
            i \in DOMAIN Units }

\* C10: for the unit an id resolves to and a destination whose Manhattan
\* distance times AP_COST_MOVE exceeds its ap, can_reach_position is false
\* and move_unit changes nothing: no position, no ap, no overwatch status,
\* and it runs no reactive-fire check; and an AI advance whose move_unit
\* call had too few action points leaves both collections as they were
C10_ShortOfAPNoMove ==
    /\ [](\A i \in DOMAIN Units : \A d \in Destinations :
            LET unit == find_unit_by_id(Now, Units[i].id)
                distance == Abs(unit.x - d[1]) + Abs(unit.y - d[2])
            IN  unit.ap < distance * AP_COST_MOVE =>
                  /\ ~can_reach_position(unit, d[1], d[2])
                  /\ move_unit(Now, unit.id, d[1], d[2]) = {Now})
    /\ [][ ( /\ last'.op = "ai_take_turn"
             /\ last'.moves = <<>> /\ last'.atk = <<>> /\ last'.checks = 1 )
           => /\ g_player_squad' = g_player_squad
              /\ g_enemy_units' = g_enemy_units ]_vars

\* an enemy with one action point left chose a diagonal step: move_unit was
\* called for it and moved nothing
C10_Witness ==
    /\ last.op = "ai_take_turn"
    /\ last.moves = <<>> /\ last.atk = <<>> /\ last.checks = 1
    /\ \E j \in DOMAIN g_enemy_units :
           g_enemy_units[j].uid = last.unit /\ g_enemy_units[j].ap = 1

\* the enemy the tick of the enemy phase runs the AI for, as it is before
\* the tick (NoUnit when the phase ends instead)
Acting ==
    LET enemies_with_ap == SelectSeq(g_enemy_units, LAMBDA e: e.health > 0 /\ e.ap > 0)
    IN  IF current_state = "enemy_turn" /\ Len(enemies_with_ap) > 0
        THEN enemies_with_ap[1] ELSE NoUnit

\* player unit p is alive and in the line of sight of unit
Visible(unit, p) ==
    p.health > 0 /\ has_line_of_sight(unit.x, unit.y, p.x, p.y)

\* score(unit, p) > n, and score(unit, p) >= score(unit, q), for the score
\* hit_chance + 30 * (max_health - health) / max_health
ScoreAbove(unit, p, n) ==
    calculate_hit_chance(unit, p) * p.max_health + 30 * (p.max_health - p.health)
        > n * p.max_health
ScoreAtLeast(unit, p, q) ==
    (calculate_hit_chance(unit, p) * p.max_health + 30 * (p.max_health - p.health))
        * q.max_health
    >= (calculate_hit_chance(unit, q) * q.max_health + 30 * (q.max_health - q.health))
        * p.max_health

\* C11: when the AI runs for an enemy with ap >= AP_COST_SHOOT that has a
\* living player unit in line of sight scoring above 40, it makes one attack
\* call, with the id of that enemy and the id of a visible player unit of
\* maximum score, the enemy pays exactly AP_COST_SHOOT, and it neither
\* moves nor changes overwatch status
C11_AttackSelected ==
    [][ ( /\ IsUnit(Acting)
          /\ Acting.ap >= AP_COST_SHOOT
          /\ \E i \in DOMAIN g_player_squad :
                Visible(Acting, g_player_squad[i]) /\ ScoreAbove(Acting, g_player_squad[i], 40) )
        => /\ last'.op = "ai_take_turn" /\ last'.unit = Acting.uid
           /\ last'.moves = <<>>
           /\ Len(last'.atk) = 1
           /\ last'.atk[1].aid = Acting.id
           /\ \E i \in DOMAIN g_player_squad :
                 /\ g_player_squad[i].id = last'.atk[1].tid
                 /\ Visible(Acting, g_player_squad[i])
                 /\ \A j \in DOMAIN g_player_squad :
                       Visible(Acting, g_player_squad[j])
                         => ScoreAtLeast(Acting, g_player_squad[i], g_player_squad[j])
           /\ \E j \in DOMAIN UnitsAfter :
                 /\ UnitsAfter[j].uid = Acting.uid
                 /\ UnitsAfter[j].ap = Acting.ap - AP_COST_SHOOT
                 /\ UnitsAfter[j].x = Acting.x /\ UnitsAfter[j].y = Acting.y
                 /\ HasOverwatch(UnitsAfter[j]) = HasOverwatch(Acting) ]_vars

\* the AI shot, and missed, the second of two visible player units, which
\* scored strictly higher than the first
C11_Witness ==
    /\ last.op = "ai_take_turn"
    /\ Len(last.atk) = 1
    /\ last.atk[1].res = "miss"
    /\ last.atk[1].a = last.unit
    /\ last.moves = <<>>
    /\ Len(g_player_squad) = 2
    /\ last.atk[1].t = g_player_squad[2].uid
    /\ last.atk[1].tid = g_player_squad[2].id
    /\ \E j \in DOMAIN g_enemy_units :
          /\ g_enemy_units[j].uid = last.unit
          /\ g_enemy_units[j].id = last.atk[1].aid
          /\ \A i \in DOMAIN g_player_squad :
                Visible(g_enemy_units[j], g_player_squad[i])
          /\ ~ScoreAtLeast(g_enemy_units[j], g_player_squad[1], g_player_squad[2])

\* C12: an enemy-phase tick that finds no enemy with health > 0 and ap > 0
\* ends the phase at once: afterwards every unit of both factions has
\* ap = max_ap, no unit holds overwatch, turn_count is exactly one higher and
\* the state is tactical_combat; no other step changes turn_count
C12_EnemyPhaseEnds ==
    [][ /\ ( /\ current_state = "enemy_turn"
             /\ \A j \in DOMAIN g_enemy_units :
                   ~(g_enemy_units[j].health > 0 /\ g_enemy_units[j].ap > 0) )
           => /\ \A i \in DOMAIN UnitsAfter :
                   /\ UnitsAfter[i].ap = UnitsAfter[i].max_ap
                   /\ ~HasOverwatch(UnitsAfter[i])
              /\ turn_count' = turn_count + 1
              /\ current_state' = "tactical_combat"
        /\ turn_count' # turn_count
           => /\ current_state = "enemy_turn"
              /\ \A j \in DOMAIN g_enemy_units :
                    ~(g_enemy_units[j].health > 0 /\ g_enemy_units[j].ap > 0)
      ]_vars

\* the enemy phase has just ended with units of both factions left, after a
\* player unit and an enemy each spent action points on a shot
C12_Witness ==
    /\ last.op = "end_enemy_turn"
    /\ current_state = "tactical_combat"
    /\ turn_count = 2
    /\ \E i \in DOMAIN g_player_squad :
          /\ g_player_squad[i].current_ammo < g_player_squad[i].max_ammo
          /\ g_player_squad[i].ap = g_player_squad[i].max_ap
    /\ \E j \in DOMAIN g_enemy_units :
          /\ g_enemy_units[j].current_ammo < g_enemy_units[j].max_ammo
          /\ g_enemy_units[j].ap = g_enemy_units[j].max_ap

\* an enemy that could be run by a tick
Eligible(e) == e.health > 0 /\ e.ap > 0

\* C13 as stated: each enemy-phase tick runs the AI for exactly one enemy
\* with health > 0 and ap > 0, and when another eligible enemy is waiting
\* the tick after it runs a different unit
C13_AdvancesToNext ==
    [][ /\ IsUnit(Acting)
           => last'.op = "ai_take_turn" /\ last'.unit = Acting.uid
        /\ ( /\ last.op = "ai_take_turn"
             /\ IsUnit(Acting)
             /\ \E j \in DOMAIN g_enemy_units :
                   Eligible(g_enemy_units[j]) /\ g_enemy_units[j].uid # last.unit )
           => last'.unit # last.unit
      ]_vars

\* C13, amended: each enemy-phase tick runs the AI for exactly one enemy, the
\* first one of g_enemy_units with health > 0 and ap > 0, and leaves every
\* enemy with another id as it was; a later enemy is run only when no
\* earlier one is eligible
C13_FirstEligiblePerTick ==
    [][ IsUnit(Acting)
        => /\ last'.op = "ai_take_turn"
           /\ \E k \in DOMAIN g_enemy_units :
                 /\ g_enemy_units[k].uid = last'.unit
                 /\ Eligible(g_enemy_units[k])
                 /\ \A j \in 1..(k - 1) : ~Eligible(g_enemy_units[j])
                 /\ \A j \in DOMAIN g_enemy_units :
                       g_enemy_units[j].id # g_enemy_units[k].id
                       => InSeq(g_enemy_units', g_enemy_units[j])
      ]_vars

\* the first enemy has been run for at least two ticks in a row and still has
\* action points, while the second enemy has not been run yet
C13_Witness ==
    /\ last.op = "ai_take_turn"
    /\ current_state = "enemy_turn"
    /\ Len(g_enemy_units) = 2
    /\ last.unit = g_enemy_units[1].uid
    /\ g_enemy_units[1].ap > 0
    /\ g_enemy_units[1].ap <= g_enemy_units[1].max_ap - 2 * AP_COST_SHOOT
    /\ g_enemy_units[2].ap = g_enemy_units[2].max_ap
    /\ g_enemy_units[2].id # g_enemy_units[1].id

\* C14: each faction starts its turn with full action points: every enemy
\* has ap = max_ap throughout the player phase and so at every step into
\* the enemy phase, and every player unit has ap = max_ap after every step
\* from the enemy phase into the player phase
C14_FullAPAtTurnStart ==
    /\ [](InCombat => \A j \in DOMAIN g_enemy_units :
                         g_enemy_units[j].ap = g_enemy_units[j].max_ap)
    /\ [][ /\ (current_state # "enemy_turn" /\ current_state' = "enemy_turn")
               => \A j \in DOMAIN g_enemy_units' :
                    g_enemy_units'[j].ap = g_enemy_units'[j].max_ap
           /\ (current_state = "enemy_turn" /\ current_state' # "enemy_turn")
               => \A i \in DOMAIN g_player_squad' :
                    g_player_squad'[i].ap = g_player_squad'[i].max_ap
         ]_vars

\* the second player phase begins: the first player unit, which moved
\* during the first player phase, and an enemy that shot during the enemy
\* phase are both back at full action points
C14_Witness ==
    /\ last.op = "end_enemy_turn"
    /\ InCombat
    /\ turn_count = 2
    /\ Len(g_player_squad) > 0
    /\ g_player_squad[1].uid = 1
    /\ <<g_player_squad[1].x, g_player_squad[1].y>> # spawn_positions[1]
    /\ g_player_squad[1].ap = g_player_squad[1].max_ap
    /\ \E j \in DOMAIN g_enemy_units :
          /\ g_enemy_units[j].current_ammo < g_enemy_units[j].max_ammo
          /\ g_enemy_units[j].ap = g_enemy_units[j].max_ap

\* the step begins the turn of the faction of unit u
OwnTurnBegins(u) ==
    IF u.faction = "player"
    THEN current_state = "enemy_turn" /\ current_state' = "tactical_combat"
    ELSE current_state = "tactical_combat" /\ current_state' = "enemy_turn"

\* C15: a unit on overwatch keeps the status over every step in which it
\* neither makes an attack nor sees its own faction's turn begin; so an enemy
\* that entered overwatch in the enemy phase is still on overwatch when the
\* player phase begins
C15_OverwatchKeptUntilOwnTurn ==
    [][ \A i \in DOMAIN Units : \A k \in DOMAIN UnitsAfter :
          ( /\ HasOverwatch(Units[i])
            /\ UnitsAfter[k].uid = Units[i].uid
            /\ ~OwnTurnBegins(Units[i])
            /\ \A n \in DOMAIN last'.atk : last'.atk[n].aid # Units[i].id )
          => HasOverwatch(UnitsAfter[k])
      ]_vars

\* C16: line of sight is symmetric on the built-in map: the call from the
\* first tile to the second returns what the call from the second to the
\* first returns
C16_LosSymmetric ==
    hc.done =>
      hc.result = has_line_of_sight(g_enemy_units[1].x, g_enemy_units[1].y,
                                    g_player_squad[1].x, g_player_squad[1].y)

\* the cells strictly between the two ends on the line traced from the first
\* unit's tile to the second unit's tile
Between ==
    LET a == g_player_squad[1]
        b == g_enemy_units[1]
    IN  LinePoints(a.x, a.y, b.x, b.y, a.x, a.y, Abs(b.x - a.x) - Abs(b.y - a.y))
          \ {<<a.x, a.y>>, <<b.x, b.y>>}

\* C17: has_line_of_sight returns false exactly when a cell strictly between
\* the two ends on the traced line blocks sight; the two ends never block,
\* so identical and 8-adjacent cells always see each other
C17_BlockedIffBetween ==
    hc.done =>
      /\ hc.result \in BOOLEAN
      /\ ~hc.result <=> \E c \in Between : Tile(c[1], c[2]).blocks_sight
      /\ ( /\ Abs(g_player_squad[1].x - g_enemy_units[1].x) <= 1
           /\ Abs(g_player_squad[1].y - g_enemy_units[1].y) <= 1 )
         => hc.result

\* a call between two neighbouring wall cells returned true
C17_Witness ==
    /\ hc.done /\ hc.result = TRUE
    /\ Tile(g_player_squad[1].x, g_player_squad[1].y).blocks_sight
    /\ Tile(g_enemy_units[1].x, g_enemy_units[1].y).blocks_sight
    /\ g_player_squad[1].x = g_enemy_units[1].x
    /\ g_player_squad[1].y + 1 = g_enemy_units[1].y

\* update_combat has just run and found living player units and no living
\* enemy
VictoryFound ==
    /\ last.op = "update_combat"
    /\ \E i \in DOMAIN g_player_squad : g_player_squad[i].health > 0
    /\ \A j \in DOMAIN g_enemy_units : g_enemy_units[j].health <= 0

\* C18: once the last living enemy is gone and the combat update has seen
\* it, the game has left the player phase for a resolved state, and no
\* command or enemy action is processed any more
C18_VictoryEndsCombat ==
    /\ [](VictoryFound => current_state \notin {"tactical_combat", "enemy_turn"})
    /\ [][ VictoryFound => last'.op = "update_combat" ]_vars

\* the unit a move command would move
ActiveUnit == find_unit_by_id(Now, active_unit_id)

\* the tile (x, y) holds no player unit, so a left click on it is a move
\* command, and the command's preconditions fail
MoveRefused(x, y) ==
    /\ \A i \in DOMAIN g_player_squad :
          ~(g_player_squad[i].x = x /\ g_player_squad[i].y = y)
    /\ active_unit_id # None
    /\ IsUnit(ActiveUnit)
    /\ \/ ~InBounds(x, y)
       \/ Tile(x, y).blocks_movement
       \/ \E i \in DOMAIN Units :
            Units[i].health > 0 /\ Units[i].x = x /\ Units[i].y = y
       \/ (Abs(ActiveUnit.x - x) + Abs(ActiveUnit.y - y)) * AP_COST_MOVE > ActiveUnit.ap

\* C19: a move command whose destination is out of bounds, blocks movement,
\* is occupied by a living unit or costs more than the active unit's ap
\* changes no unit and triggers no reactive fire; this holds for the clicks
\* made and for a click on the tile of any enemy
C19_RefusedMoveIsNoOp ==
    /\ [][ (last'.op = "click" /\ MoveRefused(last'.x, last'.y))
            => /\ g_player_squad' = g_player_squad
               /\ g_enemy_units' = g_enemy_units
               /\ active_unit_id' = active_unit_id
               /\ last'.moves = <<>>
               /\ last'.atk = <<>>
               /\ last'.checks = 0
          ]_vars
    /\ [](\A j \in DOMAIN g_enemy_units :
            MoveRefused(g_enemy_units[j].x, g_enemy_units[j].y)
            => handle_tile_click(Now, g_enemy_units[j].x, g_enemy_units[j].y) = {Now})

\* the last command was a click on the tile of a living enemy, within the
\* reach of the active unit, and no unit moved
C19_Witness ==
    /\ last.op = "click"
    /\ \E j \in DOMAIN g_enemy_units :
          /\ g_enemy_units[j].health > 0
          /\ g_enemy_units[j].x = last.x /\ g_enemy_units[j].y = last.y
    /\ last.moves = <<>>
    /\ IsUnit(ActiveUnit)
    /\ (Abs(ActiveUnit.x - last.x) + Abs(ActiveUnit.y - last.y)) * AP_COST_MOVE
         <= ActiveUnit.ap

\* C20: reload_weapon for the active unit fails, leaving the unit as it was
\* and appending one line to the combat log, when the unit's ap is below
\* AP_COST_RELOAD or its ammo is at max; otherwise the unit's ap drops by
\* exactly AP_COST_RELOAD and its ammo becomes max
C20_ReloadContract ==
    [][ (last'.op = "reload" /\ IsUnit(ActiveUnit))
        => \E k \in DOMAIN UnitsAfter :
             /\ UnitsAfter[k].uid = ActiveUnit.uid
             /\ IF \/ ActiveUnit.ap < AP_COST_RELOAD
                   \/ ActiveUnit.current_ammo = ActiveUnit.max_ammo
                THEN /\ UnitsAfter[k] = ActiveUnit
                     /\ Len(last'.log) = 1
                     /\ last'.log[1] \in {"reload_no_ap", "reload_full"}
                ELSE /\ UnitsAfter[k].ap = ActiveUnit.ap - AP_COST_RELOAD
                     /\ UnitsAfter[k].current_ammo = ActiveUnit.max_ammo
      ]_vars

\* the active unit has just reloaded an empty weapon with its last two
\* action points
C20_Witness ==
    /\ last.op = "reload"
    /\ last.log = <<"reloaded">>
    /\ IsUnit(ActiveUnit)
    /\ ActiveUnit.ap = 0
    /\ ActiveUnit.max_ammo > 0
    /\ ActiveUnit.current_ammo = ActiveUnit.max_ammo

\* how often the overwatch flag occurs in the status list of u
OverwatchCount(u) ==
    Cardinality({ i \in DOMAIN u.status_effects : u.status_effects[i] = "overwatch" })

\* C21: activate_overwatch for the active unit changes nothing when the
\* unit's ap is below AP_COST_OVERWATCH; otherwise the ap drops by exactly
\* AP_COST_OVERWATCH and the status list holds the overwatch flag exactly
\* once afterwards, also when it held the flag before
C21_OverwatchContract ==
    [][ (last'.op = "overwatch" /\ IsUnit(ActiveUnit))
        => IF ActiveUnit.ap < AP_COST_OVERWATCH
           THEN /\ g_player_squad' = g_player_squad
                /\ g_enemy_units' = g_enemy_units
                /\ active_unit_id' = active_unit_id
                /\ last'.log = <<>>
           ELSE \E k \in DOMAIN UnitsAfter :
                  /\ UnitsAfter[k].uid = ActiveUnit.uid
                  /\ UnitsAfter[k].ap = ActiveUnit.ap - AP_COST_OVERWATCH
                  /\ OverwatchCount(UnitsAfter[k]) = 1
      ]_vars

\* the active unit has just activated overwatch for the second time in its
\* turn
C21_Witness ==
    /\ last.op = "overwatch"
    /\ last.log = <<"on_overwatch">>
    /\ IsUnit(ActiveUnit)
    /\ ActiveUnit.ap = ActiveUnit.max_ap - 2 * AP_COST_OVERWATCH
    /\ OverwatchCount(ActiveUnit) = 1

\* C22: execute_attack with an attacker id or a target id that resolves to
\* no unit leaves both unit lists, the active unit and the combat log as
\* they are and records one diagnostic
C22_UnknownIdChangesNothing ==
    \A attacker_id \in ProbeIds, target_id \in ProbeIds :
      ( \/ ~IsUnit(find_unit_by_id(Now, attacker_id))
        \/ ~IsUnit(find_unit_by_id(Now, target_id)) )
      => \A w \in execute_attack(Now, attacker_id, target_id) :
           /\ w.ps = g_player_squad
           /\ w.es = g_enemy_units
           /\ w.active = active_unit_id
           /\ w.log = <<>>
           /\ w.err = 1

\* the last step made a call of execute_attack with the id of a unit that
\* was dead and removed, and in the state reached that id still resolves to
\* no unit
C22_Witness ==
    \E n \in DOMAIN last.atk :
      /\ last.atk[n].res = "not_found"
      /\ last.err = 1
      /\ last.atk[n].tid \in ProbeIds
      /\ ~IsUnit(find_unit_by_id(Now, last.atk[n].tid))

\* the uids of the units killed by the step
KilledInStep == { last'.atk[n].t : n \in { m \in DOMAIN last'.atk : last'.atk[m].res = "kill" } }

\* C23: a step that kills units removes exactly them from their lists; when
\* the active unit is among them active_unit_id becomes the id of the first
\* unit left in the player squad, or unset when none is left, and otherwise
\* active_unit_id stays
C23_DeathReassignsActive ==
    [][ (last'.op \in {"right_click", "ai_take_turn"} /\ KilledInStep # {})
        => /\ \A i \in DOMAIN g_player_squad :
                 g_player_squad[i].uid \in KilledInStep
                 <=> \A k \in DOMAIN g_player_squad' :
                       g_player_squad'[k].uid # g_player_squad[i].uid
           /\ \A j \in DOMAIN g_enemy_units :
                 g_enemy_units[j].uid \in KilledInStep
                 <=> \A k \in DOMAIN g_enemy_units' :
                       g_enemy_units'[k].uid # g_enemy_units[j].uid
           /\ IF IsUnit(ActiveUnit) /\ ActiveUnit.uid \in KilledInStep
              THEN active_unit_id' = IF Len(g_player_squad') > 0
                                     THEN g_player_squad'[1].id ELSE None
              ELSE active_unit_id' = active_unit_id
      ]_vars

\* the enemy has just killed the active unit, the first of a squad of two,
\* and the unit that is left is selected
C23_Witness ==
    /\ last.op = "ai_take_turn"
    /\ \E n \in DOMAIN last.atk :
          last.atk[n].res = "kill" /\ last.atk[n].t = 1 /\ last.atk[n].a = last.unit
    /\ Len(g_player_squad) = 1
    /\ g_player_squad[1].uid = 2
    /\ active_unit_id = g_player_squad[1].id
    /\ \A n \in DOMAIN last.atk : last.atk[n].tid # active_unit_id

\* the saved file read back holds the positions, health, ammo and action
\* points of the units of both squads and the turn counter of the state
FileMatchesState ==
    /\ LoadInt(hc.result.turn_count) = turn_count
    /\ Len(hc.result.player_squad) = Len(g_player_squad)
    /\ Len(hc.result.enemy_units) = Len(g_enemy_units)
    /\ \A i \in DOMAIN g_player_squad :
          LET u == g_player_squad[i]
              r == LoadUnit(hc.result.player_squad[i])
          IN  <<r.x, r.y, r.health, r.current_ammo, r.ap>>
                = <<u.x, u.y, u.health, u.current_ammo, u.ap>>
    /\ \A i \in DOMAIN g_enemy_units :
          LET u == g_enemy_units[i]
              r == LoadUnit(hc.result.enemy_units[i])
          IN  <<r.x, r.y, r.health, r.current_ammo, r.ap>>
                = <<u.x, u.y, u.health, u.current_ammo, u.ap>>

DuplicateIds(all) ==
    \E i, j \in DOMAIN all : i # j /\ all[i].id = all[j].id

\* the units of the list all standing off the map
OutOfBounds(all) ==
    { i \in DOMAIN all :
        ~(0 <= all[i].x /\ all[i].x < MapWidth
          /\ 0 <= all[i].y /\ all[i].y < MapHeight) }

\* the id active is set and no unit of the list all has it
ActiveDangling(all, active) ==
    /\ active # None
    /\ \A i \in DOMAIN all : all[i].id # active

\* the diagnostics the three conditions call for
Diagnostics(all, active) ==
    (IF DuplicateIds(all) THEN 1 ELSE 0)
    + Cardinality(OutOfBounds(all))
    + (IF ActiveDangling(all, active) THEN 1 ELSE 0)

\* C25: validate_game_state changes neither unit list, nor active_unit_id,
\* nor the turn state, nor the combat log; it records one diagnostic for
\* duplicate ids, one for every unit off the map and one for an active id
\* that names no unit, hence none on a consistent state; so does its call
\* in load_game on the state read from the file
C25_ValidateOnlyRecords ==
    [][ /\ last'.op = "validate_game_state" =>
            /\ UNCHANGED <<g_player_squad, g_enemy_units, active_unit_id,
                           current_state, turn_count>>
            /\ last'.log = <<>> /\ last'.atk = <<>> /\ last'.moves = <<>>
            /\ last'.err = Diagnostics(Units, active_unit_id)
            /\ (Diagnostics(Units, active_unit_id) = 0)
                 <=> ( /\ ~DuplicateIds(Units)
                       /\ OutOfBounds(Units) = {}
                       /\ ~ActiveDangling(Units, active_unit_id) )
        /\ (last'.op = "load_game" /\ last'.log = <<"game_loaded">>) =>
            /\ g_player_squad' = [i \in DOMAIN hc.result.player_squad |->
                                    LoadUnit(hc.result.player_squad[i])]
            /\ g_enemy_units' = [i \in DOMAIN hc.result.enemy_units |->
                                    LoadUnit(hc.result.enemy_units[i])]
            /\ active_unit_id' = LoadId(hc.result.active_unit_id)
            /\ last'.err = Diagnostics(UnitsAfter, active_unit_id') ]_vars

\* validate_game_state has run on a loaded state with a repeated id, a unit
\* off the map and an active id that names no unit, and recorded three
\* diagnostics
C25_Witness ==
    /\ last.op = "validate_game_state"
    /\ DuplicateIds(Units)
    /\ Cardinality(OutOfBounds(Units)) = 1
    /\ ActiveDangling(Units, active_unit_id)
    /\ last.err = 3

\* the enemy the step ran ai_take_turn for, as it was before the step
Processed ==
    g_enemy_units[CHOOSE j \in DOMAIN g_enemy_units :
                    g_enemy_units[j].uid = last'.unit]

\* the processed enemy has lost action points or has been removed
Progressed ==
    \A j \in DOMAIN g_enemy_units' :
      g_enemy_units'[j].uid = last'.unit => g_enemy_units'[j].ap < Processed.ap

\* C26: every tick of the enemy phase that processes an enemy takes action
\* points from it or removes it, so that no enemy is processed tick after
\* tick for ever and the enemy phase ends
C26_ProcessedEnemyProgresses ==
    [][last'.op = "ai_take_turn" => Progressed]_vars

\* the tick runs ai_take_turn for an enemy whose attack and take-cover
\* layers decline and whose advance layer reports that it committed
AdvanceCommits ==
    /\ last'.op = "ai_take_turn"
    /\ \A r \in ai_try_attack_visible_enemy(Now, Processed) : ~r.done
    /\ \A r \in ai_try_take_cover(Now, Processed) : ~r.done
    /\ \E r \in ai_try_move_to_enemy(Now, Processed) : r.done

\* tile (x, y) is an 8-neighbour of unit u, walkable, unoccupied and
\* strictly closer to the nearest living player unit than u is
StepCloser(u, x, y) ==
    LET k == find_nearest_player(Now, u)
    IN  /\ k # 0
        /\ Max2(Abs(x - u.x), Abs(y - u.y)) = 1
        /\ is_valid_position(x, y)
        /\ ~is_position_occupied(Now, x, y)
        /\ DistSq(x, y, g_player_squad[k].x, g_player_squad[k].y)
             < DistSq(u.x, u.y, g_player_squad[k].x, g_player_squad[k].y)

\* C27: whenever the advance layer reports that it committed, the unit has
\* moved to a walkable unoccupied 8-neighbour strictly closer to the
\* nearest living player unit and has paid the Manhattan cost of the step
C27_AdvanceCommittedMoved ==
    [][AdvanceCommits =>
         \E n \in DOMAIN last'.moves :
            LET m == last'.moves[n]
            IN  /\ m.uid = Processed.uid
                /\ <<m.ox, m.oy>> = <<Processed.x, Processed.y>>
                /\ StepCloser(Processed, m.nx, m.ny)
                /\ \A j \in DOMAIN g_enemy_units' :
                      g_enemy_units'[j].uid = Processed.uid =>
                        /\ <<g_enemy_units'[j].x, g_enemy_units'[j].y>> = <<m.nx, m.ny>>
                        /\ g_enemy_units'[j].ap =
                             Processed.ap - AP_COST_MOVE * (Abs(m.nx - m.ox) + Abs(m.ny - m.oy))
    ]_vars

\* the tick runs ai_take_turn for an enemy whose attack layer commits
AttackCommits ==
    /\ last'.op = "ai_take_turn"
    /\ \E r \in ai_try_attack_visible_enemy(Now, Processed) : r.done

\* the tick runs ai_take_turn for an enemy whose attack layer declines and
\* whose take-cover layer commits
CoverCommits ==
    /\ last'.op = "ai_take_turn"
    /\ \A r \in ai_try_attack_visible_enemy(Now, Processed) : ~r.done
    /\ \E r \in ai_try_take_cover(Now, Processed) : r.done

\* the calls of execute_attack the step made for the processed enemy as
\* attacker against another id
OwnShots ==
    { n \in DOMAIN last'.atk :
        /\ last'.atk[n].aid = Processed.id
        /\ last'.atk[n].tid # Processed.id }

\* a unit holds overwatch after the step that it did not hold before
GainsOverwatch ==
    \E i \in DOMAIN UnitsAfter : \E j \in DOMAIN Units :
       /\ UnitsAfter[i].uid = Units[j].uid
       /\ HasOverwatch(UnitsAfter[i])
       /\ ~HasOverwatch(Units[j])

\* C28: a tick of ai_take_turn commits one behaviour, the first of attack,
\* take cover, advance and overwatch fallback that accepts: the enemy
\* shoots at most once and then neither moves nor takes overwatch, at most
\* one position change is made, and a unit that moves does not shoot
C28_OneBehaviourPerTick ==
    [][last'.op = "ai_take_turn" =>
         /\ Len(last'.moves) <= 1
         /\ Cardinality(OwnShots) <= 1
         /\ ~(OwnShots # {} /\ last'.moves # <<>>)
         /\ AttackCommits =>
              /\ Len(last'.atk) = 1
              /\ last'.atk[1].aid = Processed.id
              /\ last'.moves = <<>>
              /\ last'.checks = 0
              /\ ~GainsOverwatch
         /\ (CoverCommits \/ AdvanceCommits) =>
              /\ OwnShots = {}
              /\ ~GainsOverwatch
         /\ (~AttackCommits /\ ~CoverCommits /\ ~AdvanceCommits) =>
              /\ last'.atk = <<>>
              /\ last'.moves = <<>>
    ]_vars

\* an enemy far from the squad and with action points left has just shot
\* instead of advancing
C28_Witness ==
    /\ last.op = "ai_take_turn"
    /\ Len(last.atk) = 1
    /\ last.moves = <<>>
    /\ \E j \in DOMAIN g_enemy_units :
         LET e == g_enemy_units[j]
             k == find_nearest_player(Now, e)
         IN  /\ e.uid = last.unit
             /\ last.atk[1].aid = e.id
             /\ e.ap >= AP_COST_MOVE
             /\ k # 0
             /\ DistSq(e.x, e.y, g_player_squad[k].x, g_player_squad[k].y) > 64

\* the tick runs ai_take_turn for an enemy all of whose behaviours decline
FallsBack ==
    /\ last'.op = "ai_take_turn"
    /\ ~AttackCommits /\ ~CoverCommits /\ ~AdvanceCommits

\* C29: after the overwatch fallback the enemy has no action points; it
\* holds overwatch if it had at least AP_COST_OVERWATCH action points, and
\* its status is unchanged otherwise
C29_FallbackEndsTurn ==
    [][FallsBack =>
         \E j \in DOMAIN g_enemy_units' :
            LET e == g_enemy_units'[j]
            IN  /\ e.uid = Processed.uid
                /\ e.ap = 0
                /\ IF Processed.ap >= AP_COST_OVERWATCH
                   THEN HasOverwatch(e)
                   ELSE e.status_effects = Processed.status_effects
    ]_vars

\* a living unit of the faction opposing unit is on overwatch, sees tile
\* (x, y) and does not see the tile unit stands on
WatchedEntry(unit, x, y) ==
    \E k \in DOMAIN Units :
       /\ Units[k].faction # unit.faction
       /\ HasOverwatch(Units[k])
       /\ Units[k].health > 0
       /\ has_line_of_sight(Units[k].x, Units[k].y, x, y)
       /\ ~has_line_of_sight(Units[k].x, Units[k].y, unit.x, unit.y)

\* C31: move_unit for a unit with enough action points puts the unit on the
\* destination, takes the Manhattan distance times AP_COST_MOVE from its
\* ap, and has run the reactive-fire check with the prior position when it
\* returns: a watcher that sees the destination and not the prior tile has
\* fired, and a mover killed by that shot is no longer in its collection
C31_MoveContract ==
    \A i \in DOMAIN Units : \A d \in Destinations :
       LET unit == find_unit_by_id(Now, Units[i].id)
           cost == (Abs(unit.x - d[1]) + Abs(unit.y - d[2])) * AP_COST_MOVE
       IN  (is_valid_position(d[1], d[2]) /\ unit.ap >= cost) =>
             \A w \in move_unit(Now, unit.id, d[1], d[2]) :
                LET after == Obj(w, unit.uid, NoUnit)
                IN  /\ w.moves = <<[uid |-> unit.uid, ox |-> unit.x, oy |-> unit.y,
                                    nx |-> d[1], ny |-> d[2]]>>
                    /\ w.checks = 1
                    /\ (w.atk # <<>>) <=> WatchedEntry(unit, d[1], d[2])
                    /\ \A n \in DOMAIN w.atk : w.atk[n].tid = unit.id
                    /\ \A k \in DOMAIN AllUnits(w) : AllUnits(w)[k].health > 0
                    /\ IF IsUnit(after)
                       THEN /\ <<after.x, after.y>> = d
                            /\ after.ap = unit.ap - cost
                       ELSE \E n \in DOMAIN w.atk :
                               w.atk[n].t = unit.uid /\ w.atk[n].res = "kill"

\* an enemy stepped into the view of a watcher, was killed by the reactive
\* shot and is gone from the enemy list
C31_Witness ==
    /\ last.op = "ai_take_turn"
    /\ Len(last.moves) = 1 /\ last.moves[1].uid = last.unit
    /\ \E n \in DOMAIN last.atk :
          last.atk[n].t = last.unit /\ last.atk[n].res = "kill"
    /\ \A j \in DOMAIN g_enemy_units : g_enemy_units[j].uid # last.unit

\* the step is a call of execute_attack whose two ids resolve to units
AttackCall ==
    /\ last'.op = "execute_attack"
    /\ IsUnit(find_unit_by_id(Now, last'.x))
    /\ IsUnit(find_unit_by_id(Now, last'.y))

\* the unit the attacker id of the call resolves to
Attacker == find_unit_by_id(Now, last'.x)

\* the unit the target id of the call resolves to
Target == find_unit_by_id(Now, last'.y)

\* C32: execute_attack tests the ammo before the line of sight: without a
\* line of sight an attacker with ammo gets the no-line-of-sight line and
\* no ammo or health changes, and an attacker without ammo gets the
\* out-of-ammo line only
C32_AmmoBeforeLineOfSight ==
    [][ ( /\ AttackCall
          /\ ~has_line_of_sight(Attacker.x, Attacker.y, Target.x, Target.y) )
        => /\ UNCHANGED <<g_player_squad, g_enemy_units, active_unit_id>>
           /\ last'.err = 0
           /\ last'.log = IF Attacker.current_ammo > 0
                          THEN <<"no_los">> ELSE <<"out_of_ammo">> ]_vars

\* an attacker without ammo and without a line of sight to its target has
\* just been told that it is out of ammo
C32_Witness ==
    /\ last.op = "execute_attack"
    /\ Len(last.atk) = 1
    /\ last.atk[1].res = "out_of_ammo"
    /\ last.log = <<"out_of_ammo">>
    /\ \E i \in DOMAIN Units, j \in DOMAIN Units :
          /\ Units[i].uid = last.atk[1].a
          /\ Units[j].uid = last.atk[1].t
          /\ Units[i].current_ammo = 0
          /\ ~has_line_of_sight(Units[i].x, Units[i].y, Units[j].x, Units[j].y)

\* every unit of world w has the action points it has now
SameActionPoints(w) ==
    \A k \in DOMAIN AllUnits(w) : \A i \in DOMAIN Units :
       AllUnits(w)[k].uid = Units[i].uid => AllUnits(w)[k].ap = Units[i].ap

\* C33: whatever its outcome (id not found, out of ammo, no line of sight,
\* miss, hit, kill), execute_attack leaves the action points of every unit
\* as they were
C33_AttackKeepsActionPoints ==
    \A attacker_id \in ProbeIds, target_id \in ProbeIds :
       \A w \in execute_attack(Now, attacker_id, target_id) :
          SameActionPoints(w)

\* a watcher that went on overwatch with full action points has fired a
\* resolved reactive shot and still has all but the cost of the overwatch
C33_Witness ==
    /\ last.op = "ai_take_turn"
    /\ InSeq(last.log, "fires_overwatch")
    /\ \E n \in DOMAIN last.atk : \E i \in DOMAIN g_player_squad :
          /\ Resolved(last.atk[n])
          /\ g_player_squad[i].uid = last.atk[n].a
          /\ g_player_squad[i].id = last.atk[n].aid
          /\ g_player_squad[i].ap = g_player_squad[i].max_ap - AP_COST_OVERWATCH

----------------------------------------------------------------------------
(* Defeat and the end of the turn cycle                                    *)

NoLivingPlayer == SelectSeq(g_player_squad, LAMBDA u: u.health > 0) = <<>>

\* no enemy holds the id drawn for the squad member of SaveInit: the squad
\* member can only have been removed by enemy fire
KilledByEnemy ==
    /\ NoLivingPlayer
    /\ \A j \in DOMAIN g_enemy_units : g_enemy_units[j].id # 1

\* the enemy phase that emptied the squad is over
DefeatPending == KilledByEnemy /\ InCombat

\* C34: once the player collection is empty (the last player unit was killed
\* in the enemy phase) the turn state becomes game_over: tactical_combat
\* with no player left is left only for game_over, and in game_over no tick
\* and no command changes the turn state, the turn counter or any unit.
C34_DefeatEndsGame ==
    [][/\ DefeatPending => (DefeatPending' \/ current_state' = "game_over")
       /\ current_state = "game_over" =>
            UNCHANGED <<current_state, turn_count, g_player_squad, g_enemy_units>>]_vars

----------------------------------------------------------------------------
(* Tiles of the units                                                      *)

\* a living unit other than number i stands on one of the eight tiles
\* around unit number i
HasNeighbour(i) ==
    \E j \in DOMAIN Units :
      /\ j # i /\ Units[j].health > 0
      /\ Abs(Units[j].x - Units[i].x) <= 1 /\ Abs(Units[j].y - Units[i].y) <= 1

\* C35: from a placement on distinct tiles, after any player moves and AI
\* moves no two living units stand on the same tile, and every unit stands
\* on a tile of the map that does not block movement.
C35_TilesExclusive ==
    /\ \A i, j \in DOMAIN Units :
         (i # j /\ Units[i].health > 0 /\ Units[j].health > 0)
           => <<Units[i].x, Units[i].y>> # <<Units[j].x, Units[j].y>>
    /\ \A i \in DOMAIN Units : is_valid_position(Units[i].x, Units[i].y)

\* the squad member has left its spawn tile, and an enemy has advanced to a
\* tile next to another unit
C35_Witness ==
    /\ \E i \in DOMAIN g_player_squad :
         <<g_player_squad[i].x, g_player_squad[i].y>> # spawn_positions[1]
    /\ last.op = "ai_take_turn" /\ last.moves # <<>>
    /\ \E j \in DOMAIN g_enemy_units :
         /\ g_enemy_units[j].uid = last.unit
         /\ g_enemy_units[j].uid = last.moves[1].uid
         /\ HasNeighbour(Len(g_player_squad) + j)

----------------------------------------------------------------------------
(* Factions of the two sides of an attack                                  *)

\* faction of the unit with object identity uid before the step
FactionOfUid(uid) ==
    Units[CHOOSE i \in DOMAIN Units : Units[i].uid = uid].faction

\* C36: every resolved attack (player attack command, AI attack, reactive
\* shot) has an attacker and a target of opposite factions; no unit attacks
\* itself or a unit of its own faction.
C36_OpposingFactions ==
    [][\A k \in DOMAIN last'.atk :
         Resolved(last'.atk[k]) =>
           /\ last'.atk[k].a # last'.atk[k].t
           /\ FactionOfUid(last'.atk[k].a) # FactionOfUid(last'.atk[k].t)]_vars

----------------------------------------------------------------------------
(* Overwatch spent by a reactive trigger                                   *)

\* uid is still in a collection after the step
StaysAfter(uid) == \E j \in DOMAIN UnitsAfter : UnitsAfter[j].uid = uid

\* the step made an execute_attack call with the id of unit as attacker
\* that was resolved: a round was spent and a hit or a miss rolled
ShotResolvedFor(unit) ==
    \E k \in DOMAIN last'.atk :
      last'.atk[k].aid = unit.id /\ Resolved(last'.atk[k])

\* C37: a reactive trigger (a player move, an AI move) takes the overwatch
\* status from a watcher only when the watcher's shot at the mover was
\* resolved; never for a shot aborted for want of ammo or because the mover
\* was already dead and removed.
C37_OverwatchSpentOnlyByShot ==
    [][last'.op \in {"click", "ai_take_turn"} =>
         \A i \in DOMAIN Units :
           (/\ HasOverwatch(Units[i])
            /\ StaysAfter(Units[i].uid)
            /\ ~WatchesAfter(Units[i].uid)) => ShotResolvedFor(Units[i])]_vars

----------------------------------------------------------------------------
(* Commands and AI actions by turn state                                   *)

\* the operations a player command runs
CommandOps == { event.kind : event \in Events }

\* C38: player commands (select, move, attack, reload, overwatch, cycle,
\* end turn) take effect only in tactical_combat: in enemy_turn and in
\* game_over a command changes no unit, not the active unit id and not the
\* turn state; AI actions happen only in enemy_turn.
C38_CommandsOnlyInCombat ==
    [][/\ (~InCombat /\ last'.op \in CommandOps) =>
            UNCHANGED <<g_player_squad, g_enemy_units, active_unit_id, current_state>>
       /\ last'.op \in {"ai_take_turn", "end_enemy_turn"} =>
            current_state = "enemy_turn"]_vars

\* an attack command on the tile of the living enemy, given in the enemy
\* phase while the active squad member has a round and the action points
\* for a shot
C38_Witness ==
    /\ current_state = "enemy_turn"
    /\ last.op = "right_click" /\ last.x = 3 /\ last.y = 3
    /\ \E j \in DOMAIN g_enemy_units :
         /\ g_enemy_units[j].health > 0
         /\ <<g_enemy_units[j].x, g_enemy_units[j].y>> = <<3, 3>>
    /\ \E i \in DOMAIN g_player_squad :
         /\ g_player_squad[i].id = active_unit_id
         /\ g_player_squad[i].ap >= AP_COST_SHOOT
         /\ g_player_squad[i].current_ammo > 0

\* C39: with an empty player collection the turn cycle does not continue:
\* after the enemy phase that killed the last player unit, no
\* end-player-turn command is accepted before the defeat check, so the
\* turn state never goes from tactical_combat to enemy_turn while no player
\* unit is alive.
C39_NoEnemyPhaseWithoutPlayers ==
    [][(InCombat /\ current_state' = "enemy_turn") => ~KilledByEnemy]_vars


====
